---- MODULE Spec2Model ----
(***************************************************************************)
(* Model of the IIS rollback tool: the remote executor (ssh_tool.py), the  *)
(* site controller (iis_tool.py), the backup classifier and staging        *)
(* helpers (backup_tool.py) and the rollback orchestrator                  *)
(* (developer_agent.py, DeveloperAgent.execute_rollback).                  *)
(*                                                                         *)
(* The remote host is the environment: every remote command draws its      *)
(* exit code, output and error text from a small set (RemoteOutcomes), and *)
(* every connection attempt draws its outcome from AttemptOutcomes.        *)
(* Texts are sequences of tokens; numbers inside texts are rendered as     *)
(* decimal digit characters and parsed back the way int() parses them.     *)
(***************************************************************************)
EXTENDS Integers, Sequences, FiniteSets, TLC

\* ------------------------------------------------------------------ bounds
\* Largest number of archive files the backup directory may hold.
MaxZips == 11
\* Number of execute_rollback calls made on one DeveloperAgent.
MaxRuns == 2
\* Largest value of the wall clock (seconds) used for timestamped names.
MaxClock == 1

\* Number of calls made directly on one SSHExecutor and its IISManager.
MaxOps == 4

\* Number of calls made directly on the IISManager and the BackupManager.
MaxCalls == 3

\* Longest list of error messages passed to analyze_errors.
MaxErrors == 2

\* Most pattern names one error message contains.
MaxPatterns == 2

\* ------------------------------------------------------- program constants
\* stop_after_attempt(3) on _connect_with_retry
MaxAttempts == 3

\* ------------------------------------------------------------------- texts
Digits == <<"0", "1", "2", "3", "4", "5", "6", "7", "8", "9">>

IsDigit(c) == \E i \in 1..10 : Digits[i] = c

DigitVal(c) == (CHOOSE i \in 1..10 : Digits[i] = c) - 1

IsSpace(c) == c \in {" ", "\n"}

\* Decimal rendering of a natural number, as PowerShell's Write-Host and
\* Python's f-string formatting print an integer.
RECURSIVE Render(_)
Render(n) == IF n < 10 THEN <<Digits[n + 1]>>
             ELSE Render(n \div 10) \o <<Digits[(n % 10) + 1]>>

\* str.strip(): drop leading and trailing whitespace characters.
RECURSIVE LStrip(_)
LStrip(s) == IF s # <<>> /\ IsSpace(Head(s)) THEN LStrip(Tail(s)) ELSE s

RECURSIVE RStrip(_)
RStrip(s) == IF s # <<>> /\ IsSpace(s[Len(s)])
             THEN RStrip(SubSeq(s, 1, Len(s) - 1)) ELSE s

Strip(s) == RStrip(LStrip(s))

\* Value of a non-empty sequence of digit characters.
RECURSIVE DigitsValue(_)
DigitsValue(s) == IF Len(s) = 1 THEN DigitVal(s[1])
                  ELSE 10 * DigitsValue(SubSeq(s, 1, Len(s) - 1)) + DigitVal(s[Len(s)])

AllDigits(s) == s # <<>> /\ \A i \in 1..Len(s) : IsDigit(s[i])

\* Variant of int() that accepts a single digit only.
ParseInt_SingleDigit(s) ==
    IF Len(s) = 1 /\ IsDigit(s[1]) THEN [ok |-> TRUE, val |-> DigitVal(s[1])]
    ELSE [ok |-> FALSE, val |-> 0]

\* int(text): an optional sign followed by one or more digits; anything
\* else is a ValueError (ok = FALSE).
ParseInt(s) ==
    IF AllDigits(s) THEN [ok |-> TRUE, val |-> DigitsValue(s)]
    ELSE IF s # <<>> /\ Head(s) = "-" /\ AllDigits(Tail(s))
         THEN [ok |-> TRUE, val |-> 0 - DigitsValue(Tail(s))]
    ELSE IF s # <<>> /\ Head(s) = "+" /\ AllDigits(Tail(s))
         THEN [ok |-> TRUE, val |-> DigitsValue(Tail(s))]
    ELSE [ok |-> FALSE, val |-> 0]

\* Variant of the join that keeps the last text only.
Join_LastOnly(list) == IF list = <<>> THEN <<>> ELSE list[Len(list)]

\* '; '.join(list of texts)
RECURSIVE Join(_)
Join(list) == IF list = <<>> THEN <<>>
              ELSE IF Len(list) = 1 THEN list[1]
              ELSE list[1] \o <<"; ">> \o Join(Tail(list))

\* ------------------------------------------------------------------- paths
\* A path is a record: kind "" is the empty string, kind "None" is Python's
\* None; timestamped names carry the second they were formatted in.
EmptyPath == [kind |-> "", ts |-> 0]
NonePath == [kind |-> "None", ts |-> 0]
BackupPath == [kind |-> "backup", ts |-> 0]
SitePath == [kind |-> "site", ts |-> 0]
TempPath(t) == [kind |-> "temp", ts |-> t]
PreRollbackPath(t) == [kind |-> "prerollback", ts |-> t]

\* Python truthiness of a str-or-None value.
Truthy(p) == p.kind \notin {"", "None"}

\* One entry of the command log.
Cmd(op, arg, rc) == [op |-> op, arg |-> arg, rc |-> rc]

\* --------------------------------------------------------- the remote host
\* What the remote host answers to one command: exc = the transport raised
\* while executing (timeout, channel error); otherwise an exit code, the
\* raw standard output and the standard error text.
RemoteOutcomes ==
    { [exc |-> FALSE, rc |-> 0, stdout |-> <<>>, stderr |-> <<>>],
      [exc |-> FALSE, rc |-> 1, stdout |-> <<>>, stderr |-> <<"denied">>],
      [exc |-> TRUE, rc |-> 0, stdout |-> <<>>, stderr |-> <<>>] }

\* Exit codes of robocopy (0, 1, 2 = copied / nothing to do / extras;
\* >= 8 = errors), plus a transport exception.
CopyOutcomes ==
    { [exc |-> FALSE, rc |-> c, stdout |-> <<>>,
       stderr |-> IF c >= 8 THEN <<"copy error">> ELSE <<>>] : c \in {0, 1, 2, 8} }
    \cup { [exc |-> TRUE, rc |-> 0, stdout |-> <<>>, stderr |-> <<>>] }

\* Answers of the archive-count command in a directory holding n archives:
\* the count on a line of its own, or a failure; for an empty or missing
\* directory the count may also print as an empty line.
CountOutcomes(n) ==
    { [exc |-> FALSE, rc |-> 0, stdout |-> Render(n) \o <<"\n">>, stderr |-> <<>>],
      [exc |-> FALSE, rc |-> 1, stdout |-> <<>>, stderr |-> <<"denied">>],
      [exc |-> TRUE, rc |-> 0, stdout |-> <<>>, stderr |-> <<>>] }
    \cup (IF n = 0
          THEN { [exc |-> FALSE, rc |-> 0, stdout |-> <<"\n">>, stderr |-> <<>>] }
          ELSE {})

\* Answers of the listing command that follows the count: ok = it succeeded
\* with some output, fields = number of |-separated fields of that output,
\* ts = the timestamp field parses.
InfoOutcomes ==
    { [ok |-> TRUE, fields |-> 2, ts |-> TRUE], [ok |-> TRUE, fields |-> 2, ts |-> FALSE],
      [ok |-> TRUE, fields |-> 1, ts |-> FALSE], [ok |-> FALSE, fields |-> 0, ts |-> FALSE] }

\* Outcome of one underlying client.connect call.
AttemptOutcomes == {"ok", "auth", "transport"}

\* Credentials configurations: password present or not, key path absent,
\* naming an existing file, or naming a missing file.
Configs == [password : BOOLEAN, key : {"none", "exists", "missing"}]

VARIABLES
    pc,          \* position of execute_rollback
    run,         \* number of execute_rollback calls started
    now,         \* wall clock, in seconds
    cfg,         \* config.ssh_config of the current call
    zipFiles,    \* archives present in the remote backup directory
    archiveGood, \* the archive in the backup directory can be expanded
    ssh,         \* DeveloperAgent.ssh (SSHExecutor)
    attempts,    \* client.connect calls made by the current connect()
    lastAttempt, \* outcome of the latest client.connect call of this run
    managers,    \* DeveloperAgent.iis / .backup exist
    bmTemp,      \* BackupManager.temp_folder
    detection,   \* detect_backup_type's return value
    mode,        \* local: mode
    backup_source, \* local: backup_source
    temp_folder, \* local: temp_folder
    preventive_result, \* local: preventive_result
    errors,      \* local: errors
    cmds,        \* remote commands issued in the current call, in order
    exit,        \* which return statement produced the result
    result,      \* the RollbackResult returned
    mock,        \* calls received by the paramiko client: connect, close, exec_command
    last,        \* outcome of the latest direct call on a tool object
    nops,        \* number of direct calls made on the tool objects
    host,        \* the remote host: the site's state and its content directory
    block        \* position of a with-statement over the SSHExecutor

vars == <<pc, run, now, cfg, zipFiles, archiveGood, ssh, attempts, lastAttempt, managers,
          bmTemp, detection, mode, backup_source, temp_folder,
          preventive_result, errors, cmds, exit, result, mock, last, nops, host, block>>

\* The variables only direct calls on the tool objects change.
harness == <<mock, last, nops, host, block>>

\* ------------------------------------------------------------ ssh_tool.py
NoSsh == [exists |-> FALSE, connected |-> FALSE, client |-> FALSE, open |-> FALSE]

\* Variant of _validate_config that does not check that the key file exists.
ValidConfig_NoKeyFileCheck(c) == ~(~c.password /\ c.key = "none")

\* Variant of _validate_config that only checks the key file.
ValidConfig_NoAuthCheck(c) == c.key # "none" => c.key = "exists"

\* SSHExecutor._validate_config: TRUE when it raises no ValueError.
ValidConfig(c) ==
    /\ ~(~c.password /\ c.key = "none")
    /\ (c.key # "none" => c.key = "exists")

\* SSHExecutor.__init__: connected = False, client = None.
NewExecutor == [exists |-> TRUE, connected |-> FALSE, client |-> FALSE, open |-> FALSE]

\* Variant of disconnect that closes the transport only when no client
\* object is held (inverted guard).
Disconnect_InvertedGuard(s) ==
    IF ~(s.client /\ s.connected)
    THEN [s EXCEPT !.connected = FALSE, !.open = FALSE]
    ELSE s

\* Variant of disconnect that closes the transport and leaves the
\* connected flag set.
Disconnect_KeepsFlag(s) ==
    IF s.client /\ s.connected
    THEN [s EXCEPT !.open = FALSE]
    ELSE s

\* SSHExecutor.disconnect
Disconnect(s) ==
    IF s.client /\ s.connected
    THEN [s EXCEPT !.connected = FALSE, !.open = FALSE]
    ELSE s

\* Variant of execute_command without the connected check: the command
\* goes to the client whatever the session state.
ExecuteCommand_NoGuard(s, o) ==
    IF o.exc
    THEN [raised |-> FALSE, success |-> FALSE, stdout |-> <<>>,
          stderr |-> <<"exception">>, return_code |-> -1]
    ELSE [raised |-> FALSE, success |-> (o.rc = 0), stdout |-> Strip(o.stdout),
          stderr |-> Strip(o.stderr), return_code |-> o.rc]

\* Variant of execute_command that lets an execution error escape.
ExecuteCommand_Propagates(s, o) ==
    IF ~s.connected \/ o.exc
    THEN [raised |-> TRUE, success |-> FALSE, stdout |-> <<>>,
          stderr |-> <<"exception">>, return_code |-> 0]
    ELSE [raised |-> FALSE, success |-> (o.rc = 0), stdout |-> Strip(o.stdout),
          stderr |-> Strip(o.stderr), return_code |-> o.rc]

\* SSHExecutor.execute_command on session s when the host answers o.
ExecuteCommand(s, o) ==
    IF ~s.connected
    THEN [raised |-> TRUE, success |-> FALSE, stdout |-> <<>>,
          stderr |-> <<"Not connected to SSH server. Call connect() first.">>,
          return_code |-> 0]
    ELSE IF o.exc
    THEN [raised |-> FALSE, success |-> FALSE, stdout |-> <<>>,
          stderr |-> <<"exception">>, return_code |-> -1]
    ELSE [raised |-> FALSE, success |-> (o.rc = 0), stdout |-> Strip(o.stdout),
          stderr |-> Strip(o.stderr), return_code |-> o.rc]

\* ------------------------------------------------------------ iis_tool.py
\* Variant of copy_files that accepts every exit code up to 8.
CopyFiles_UpToEight(r) ==
    [success |-> (r.return_code \in 0..8), stderr |-> r.stderr,
     return_code |-> r.return_code]

\* Variant of copy_files that passes on the executor's success flag.
CopyFiles_ByFlag(r) ==
    [success |-> r.success, stderr |-> r.stderr, return_code |-> r.return_code]

\* IISManager.copy_files: success is decided by robocopy's exit code.
CopyFiles(r) ==
    [success |-> (r.return_code \in {0, 1, 2}), stderr |-> r.stderr,
     return_code |-> r.return_code]

\* Variant of restart_site that starts the site whatever the stop result.
RestartSite_AlwaysStarts(s, o1, o2) ==
    LET stop == ExecuteCommand(s, o1)
        start == ExecuteCommand(s, o2)
    IN [raised |-> stop.raised, success |-> start.success,
        issued |-> <<Cmd("stop", SitePath, stop.return_code),
                     Cmd("start", SitePath, start.return_code)>>]

\* IISManager.restart_site when the host answers o1 to the stop command
\* and o2 to the start command: the result's success and the commands
\* issued, in order.  stop_site and start_site return the executor's
\* result unchanged.
RestartSite(s, o1, o2) ==
    LET stop == ExecuteCommand(s, o1)
        start == ExecuteCommand(s, o2)
    IN IF stop.raised
       THEN [raised |-> TRUE, success |-> FALSE, issued |-> <<>>]
       ELSE IF ~stop.success
       THEN [raised |-> FALSE, success |-> FALSE,
             issued |-> <<Cmd("stop", SitePath, stop.return_code)>>]
       ELSE [raised |-> FALSE, success |-> start.success,
             issued |-> <<Cmd("stop", SitePath, stop.return_code),
                          Cmd("start", SitePath, start.return_code)>>]

\* IISManager.get_site_state from the result r of its query command: the
\* stripped output when the command succeeded, else None.
GetSiteState(r) ==
    IF r.success THEN [none |-> FALSE, text |-> Strip(r.stdout)]
    ELSE [none |-> TRUE, text |-> <<>>]

\* --------------------------------------------------------- backup_tool.py
NoDetection == [type |-> "unset", zip_count |-> 0, info |-> "None", message |-> <<>>]

\* BackupManager._get_zip_info: the listed name when the listing succeeded
\* with a well-formed name|timestamp line, else the fallback name.  (The
\* command template at line 195 ends its string literal early, at \\';
\* the command is taken as the listing it was meant to be.)
GetZipInfo(i) == IF i.ok /\ i.fields >= 2 /\ i.ts THEN "listed" ELSE "backup.zip"

\* BackupManager._get_folder_info: the leaf name of the backup path.
GetFolderInfo(i) == "leaf"

\* Variant of the count that takes an output it cannot parse for an
\* ambiguous directory.
ZipCount_UnparsedIsMany(r) ==
    LET p == ParseInt(Strip(r.stdout)) IN IF p.ok THEN p.val ELSE 2

\* zip_count as detect_backup_type computes it from the count command.
ZipCount(r) == LET p == ParseInt(Strip(r.stdout)) IN IF p.ok THEN p.val ELSE 0

\* Variant of detect_backup_type that takes the first archive whenever at
\* least one is found (ties broken silently).
DetectBackupType_AtLeastOne(r, i) ==
    IF ~r.success
    THEN [type |-> "none", zip_count |-> -1, info |-> "None",
          message |-> <<"Failed to check backup: ">> \o r.stderr]
    ELSE IF ZipCount(r) >= 1
    THEN [type |-> "zip", zip_count |-> 1, info |-> GetZipInfo(i),
          message |-> <<"ZIP mode detected (1 ZIP file found)">>]
    ELSE [type |-> "folder", zip_count |-> 0, info |-> GetFolderInfo(i),
          message |-> <<"Folder mode detected (no ZIP files)">>]

\* BackupManager.detect_backup_type, given the count command's result r
\* and the answer i to the listing command it then issues.
DetectBackupType(r, i) ==
    IF ~r.success
    THEN [type |-> "none", zip_count |-> -1, info |-> "None",
          message |-> <<"Failed to check backup: ">> \o r.stderr]
    ELSE IF ZipCount(r) = 1
    THEN [type |-> "zip", zip_count |-> 1, info |-> GetZipInfo(i),
          message |-> <<"ZIP mode detected (1 ZIP file found)">>]
    ELSE IF ZipCount(r) > 1
    THEN [type |-> "none", zip_count |-> ZipCount(r), info |-> "None",
          message |-> <<"Abort: ">> \o Render(ZipCount(r))
                      \o <<" ZIP files found (expected 1)">>]
    ELSE [type |-> "folder", zip_count |-> 0, info |-> GetFolderInfo(i),
          message |-> <<"Folder mode detected (no ZIP files)">>]

\* The name basePath used in create_temp_folder's command template is bound
\* in no scope (the parameter is base_path): evaluating the template raises
\* NameError before the command is issued.
basePathBound == FALSE

\* BackupManager.create_temp_folder at second t, with temp_folder = temp.
CreateTempFolder(temp, t, s, o) ==
    IF ~basePathBound
    THEN [raised |-> TRUE, exc |-> <<"name 'basePath' is not defined">>,
          issued |-> FALSE, rc |-> 0, ret |-> EmptyPath, temp |-> temp]
    ELSE LET r == ExecuteCommand(s, o) IN
         IF r.raised
         THEN [raised |-> TRUE, exc |-> r.stderr, issued |-> FALSE, rc |-> 0,
               ret |-> EmptyPath, temp |-> temp]
         ELSE IF r.success
         THEN [raised |-> FALSE, exc |-> <<>>, issued |-> TRUE, rc |-> r.return_code,
               ret |-> TempPath(t), temp |-> TempPath(t)]
         ELSE [raised |-> TRUE, exc |-> <<"Failed to create temp folder: ">> \o r.stderr,
               issued |-> TRUE, rc |-> r.return_code, ret |-> EmptyPath, temp |-> temp]

\* Variant of create_preventive_backup that reports the path it tried even
\* when its copy command failed.
CreatePreventiveBackup_AlwaysPath(r, t) ==
    IF r.success
    THEN [success |-> TRUE, backup_path |-> PreRollbackPath(t),
          message |-> <<"Preventive backup created">>]
    ELSE [success |-> FALSE, backup_path |-> PreRollbackPath(t),
          message |-> <<"Failed to create backup: ">> \o r.stderr]

\* BackupManager.create_preventive_backup at second t, from the result r
\* of its copy command.
CreatePreventiveBackup(r, t) ==
    IF r.success
    THEN [success |-> TRUE, backup_path |-> PreRollbackPath(t),
          message |-> <<"Preventive backup created">>]
    ELSE [success |-> FALSE, backup_path |-> NonePath,
          message |-> <<"Failed to create backup: ">> \o r.stderr]

\* Variant of cleanup_temp_folder that forgets the staging directory
\* whatever the deletion command returned.
CleanupTempFolder_AlwaysClears(temp, s, o) ==
    IF ~Truthy(temp)
    THEN [raised |-> FALSE, success |-> TRUE, issued |-> FALSE, rc |-> 0, temp |-> temp]
    ELSE LET r == ExecuteCommand(s, o) IN
         [raised |-> r.raised, success |-> r.success, issued |-> ~r.raised,
          rc |-> r.return_code, temp |-> NonePath]

\* BackupManager.cleanup_temp_folder with temp_folder = temp.
CleanupTempFolder(temp, s, o) ==
    IF ~Truthy(temp)
    THEN [raised |-> FALSE, success |-> TRUE, issued |-> FALSE, rc |-> 0, temp |-> temp]
    ELSE LET r == ExecuteCommand(s, o) IN
         IF r.raised
         THEN [raised |-> TRUE, success |-> FALSE, issued |-> FALSE, rc |-> 0, temp |-> temp]
         ELSE IF r.success
         THEN [raised |-> FALSE, success |-> TRUE, issued |-> TRUE,
               rc |-> r.return_code, temp |-> NonePath]
         ELSE [raised |-> FALSE, success |-> FALSE, issued |-> TRUE,
               rc |-> r.return_code, temp |-> temp]

\* Extraction answers: a good archive expands unless the transport fails;
\* a corrupt one makes Expand-Archive fail.
ExtractOutcomes(good) ==
    IF good
    THEN { [exc |-> FALSE, rc |-> 0, stdout |-> <<>>, stderr |-> <<>>],
           [exc |-> TRUE, rc |-> 0, stdout |-> <<>>, stderr |-> <<>>] }
    ELSE { [exc |-> FALSE, rc |-> 1, stdout |-> <<>>, stderr |-> <<"corrupt">>] }

\* ------------------------------------------------------ developer_agent.py
\* RollbackResult (duration_seconds is left out: it is wall-clock noise).
RollbackResult(s, m, bp, pbp, tf, e) ==
    [success |-> s, mode |-> m, backup_path |-> bp, preventive_backup_path |-> pbp,
     temp_folder |-> tf, error |-> e]

NoResult == RollbackResult(FALSE, "unset", EmptyPath, EmptyPath, EmptyPath, <<>>)

NoPreventive == [success |-> FALSE, backup_path |-> NonePath, message |-> <<>>]

\* A return statement inside the try block: the result is fixed, the
\* finally clause runs next.
Return(res, label) ==
    /\ result' = res
    /\ exit' = label
    /\ pc' = "finally"

\* Variant of the except handler that fills the result from the locals the
\* run had set when the exception was raised.
ExceptionReturn_KeepsLocals(msg) ==
    Return(RollbackResult(FALSE, mode, EmptyPath, EmptyPath, temp_folder, msg), "exception")

\* except Exception as e (lines 297-304)
ExceptionReturn(msg) ==
    Return(RollbackResult(FALSE, "", EmptyPath, EmptyPath, EmptyPath, msg), "exception")

\* Nothing was called on the paramiko client yet.
NoCalls == [connect |-> 0, opened |-> 0, close |-> 0, exec |-> 0]

\* Outcome of a direct call: the method, whether the session was connected
\* when it was entered, whether it raised and which exception, the value it
\* returned, and what the host answered.
Call(op, pre, raised, exc, ret, rc, hostExc, hostRc) ==
    [op |-> op, pre |-> pre, raised |-> raised, exc |-> exc, ret |-> ret, rc |-> rc,
     hostExc |-> hostExc, hostRc |-> hostRc]

NoCall == Call("none", FALSE, FALSE, "", FALSE, 0, FALSE, 0)

\* What can lie in the site's content directory: a file, a sub-directory
\* and a file that a running process holds open, which cannot be removed.
Entries == {"file", "dir", "locked"}

\* A remote host on which the site is started and its directory is empty.
NoHost == [site |-> "Started", root |-> TRUE, entries |-> {}]

Init ==
    /\ pc = "idle"
    /\ run = 0
    /\ now = 0
    /\ cfg = [password |-> TRUE, key |-> "none"]
    /\ zipFiles = 0
    /\ archiveGood = TRUE
    /\ ssh = NoSsh
    /\ attempts = 0
    /\ lastAttempt = "none"
    /\ managers = FALSE
    /\ bmTemp = NonePath
    /\ detection = NoDetection
    /\ mode = ""
    /\ backup_source = EmptyPath
    /\ temp_folder = EmptyPath
    /\ preventive_result = NoPreventive
    /\ errors = <<>>
    /\ cmds = <<>>
    /\ exit = ""
    /\ result = NoResult
    /\ mock = NoCalls
    /\ last = NoCall
    /\ nops = 0
    /\ host = NoHost
    /\ block = "none"

\* The wall clock advances.
Tick ==
    /\ now < MaxClock
    /\ now' = now + 1
    /\ UNCHANGED <<pc, run, cfg, zipFiles, archiveGood, ssh, attempts, lastAttempt, managers,
                   bmTemp, detection, mode, backup_source, temp_folder,
                   preventive_result, errors, cmds, exit, result>>
    /\ UNCHANGED harness

\* execute_rollback is called (lines 162-166) with some configuration,
\* against some state of the remote backup directory.
StartRun ==
    /\ pc \in {"idle", "done"}
    /\ run < MaxRuns
    /\ run' = run + 1
    /\ \E c \in Configs, n \in 0..MaxZips :
       \E g \in (IF n = 1 THEN BOOLEAN ELSE {TRUE}) :
          /\ cfg' = c
          /\ zipFiles' = n
          /\ archiveGood' = g
    /\ errors' = <<>>
    /\ detection' = NoDetection
    /\ mode' = ""
    /\ backup_source' = EmptyPath
    /\ temp_folder' = EmptyPath
    /\ preventive_result' = NoPreventive
    /\ cmds' = <<>>
    /\ exit' = ""
    /\ result' = NoResult
    /\ attempts' = 0
    /\ lastAttempt' = "none"
    /\ pc' = "connect"
    /\ UNCHANGED <<now, ssh, managers, bmTemp>>
    /\ UNCHANGED harness

ConnectFailed == RollbackResult(FALSE, "", EmptyPath, EmptyPath, EmptyPath,
                                <<"Failed to establish SSH connection">>)

\* Step 1, first half: _connect_ssh constructs the executor (validation)
\* and connect() creates the client.
Construct ==
    /\ pc = "connect"
    /\ IF ValidConfig(cfg)
       THEN /\ ssh' = [NewExecutor EXCEPT !.client = TRUE]
            /\ pc' = "connecting"
            /\ UNCHANGED <<result, exit>>
       ELSE /\ ssh' = ssh
            /\ Return(ConnectFailed, "connect_fail")
    /\ UNCHANGED <<run, now, cfg, zipFiles, archiveGood, attempts, lastAttempt, managers, bmTemp,
                   detection, mode, backup_source, temp_folder, preventive_result,
                   errors, cmds>>
    /\ UNCHANGED harness

\* Variant of the connection attempt whose retry has no stop condition: a
\* failed client.connect call is always followed by another one.
Attempt_RetriesForever ==
    /\ pc = "connecting"
    /\ attempts < MaxAttempts
    /\ \E a \in AttemptOutcomes :
          /\ lastAttempt' = a
          /\ IF a = "ok"
             THEN /\ ssh' = [ssh EXCEPT !.connected = TRUE, !.open = TRUE]
                  /\ managers' = TRUE
                  /\ bmTemp' = NonePath
                  /\ attempts' = attempts + 1
                  /\ pc' = "classify"
                  /\ UNCHANGED <<result, exit>>
             ELSE UNCHANGED <<ssh, managers, bmTemp, attempts, pc, result, exit>>
    /\ UNCHANGED <<run, now, cfg, zipFiles, archiveGood, detection, mode,
                   backup_source, temp_folder, preventive_result, errors, cmds>>
    /\ UNCHANGED harness

\* Step 1, second half: one client.connect call of _connect_with_retry.
\* Any exception is retried until MaxAttempts calls were made; then
\* connect() re-raises and _connect_ssh returns False.
Attempt ==
    /\ pc = "connecting"
    /\ attempts < MaxAttempts
    /\ attempts' = attempts + 1
    /\ \E a \in AttemptOutcomes :
          /\ lastAttempt' = a
          /\ IF a = "ok"
             THEN /\ ssh' = [ssh EXCEPT !.connected = TRUE, !.open = TRUE]
                  /\ managers' = TRUE
                  /\ bmTemp' = NonePath
                  /\ pc' = "classify"
                  /\ UNCHANGED <<result, exit>>
             ELSE IF attempts + 1 < MaxAttempts
             THEN UNCHANGED <<ssh, managers, bmTemp, pc, result, exit>>
             ELSE /\ ssh' = [ssh EXCEPT !.connected = FALSE]
                  /\ UNCHANGED <<managers, bmTemp>>
                  /\ Return(ConnectFailed, "connect_fail")
    /\ UNCHANGED <<run, now, cfg, zipFiles, archiveGood, detection, mode,
                   backup_source, temp_folder, preventive_result, errors, cmds>>
    /\ UNCHANGED harness

\* Commands detect_backup_type issues: the count, then one listing command
\* for the single-archive and for the folder outcome.
DetectCmds(r, d, i) ==
    <<Cmd("count", BackupPath, r.return_code)>>
    \o (IF d.type = "zip" THEN <<Cmd("zipinfo", BackupPath, IF i.ok THEN 0 ELSE 1)>>
        ELSE IF d.type = "folder" THEN <<Cmd("folderinfo", BackupPath, IF i.ok THEN 0 ELSE 1)>>
        ELSE <<>>)

\* Variant of the abort result that reports a fixed text instead of the
\* classifier's message.
ClassifyAbort_FixedText(d) ==
    RollbackResult(FALSE, "", EmptyPath, EmptyPath, EmptyPath,
                   <<"Backup classification failed">>)

\* The result returned when classification yields NONE (lines 181-185).
ClassifyAbort(d) ==
    RollbackResult(FALSE, "", EmptyPath, EmptyPath, EmptyPath, d.message)

\* Variant of the step-3 test that stages whatever the classifier found.
StagesArchive_Always(d) == TRUE

\* The test guarding step 3 (line 194): only a single-archive backup is
\* staged and extracted; a folder backup goes straight to step 4.
StagesArchive(d) == d.type = "zip"

\* Step 2 (lines 177-191): classify the backup path; a successful
\* classification continues with step 3 or step 4.
Classify ==
    /\ pc = "classify"
    /\ \E o \in CountOutcomes(zipFiles), i \in InfoOutcomes :
          LET r == ExecuteCommand(ssh, o)
              d == DetectBackupType(r, i)
          IN IF r.raised
             THEN /\ ExceptionReturn(r.stderr)
                  /\ UNCHANGED <<detection, mode, backup_source, temp_folder, cmds>>
             ELSE /\ detection' = d
                  /\ cmds' = cmds \o DetectCmds(r, d, i)
                  /\ IF d.type = "none"
                     THEN /\ Return(ClassifyAbort(d), "classify_abort")
                          /\ UNCHANGED <<mode, backup_source, temp_folder>>
                     ELSE /\ mode' = d.type
                          /\ backup_source' = BackupPath
                          /\ temp_folder' = EmptyPath
                          /\ pc' = IF StagesArchive(d) THEN "stage" ELSE "preventive"
                          /\ UNCHANGED <<result, exit>>
    /\ UNCHANGED <<run, now, cfg, zipFiles, archiveGood, ssh, attempts, lastAttempt, managers,
                   bmTemp, preventive_result, errors>>
    /\ UNCHANGED harness

\* Step 3 (lines 193-212): create the staging directory and extract the
\* archive into it.
Stage ==
    /\ pc = "stage"
    /\ \E o1 \in RemoteOutcomes, o2 \in ExtractOutcomes(archiveGood) :
          LET ct == CreateTempFolder(bmTemp, now, ssh, o1)
              mk == IF ct.issued THEN <<Cmd("mktemp", ct.ret, ct.rc)>> ELSE <<>>
              x == ExecuteCommand(ssh, o2)
          IN IF ct.raised
             THEN /\ ExceptionReturn(ct.exc)
                  /\ bmTemp' = ct.temp
                  /\ cmds' = cmds \o mk
                  /\ UNCHANGED <<temp_folder, backup_source>>
             ELSE /\ bmTemp' = ct.temp
                  /\ temp_folder' = ct.ret
                  /\ cmds' = cmds \o mk \o <<Cmd("extract", ct.ret, x.return_code)>>
                  /\ IF ~x.success
                     THEN /\ Return(RollbackResult(FALSE, mode, EmptyPath, EmptyPath, ct.ret,
                                        <<"Failed to extract ZIP: ">> \o x.stderr),
                                    "extract_fail")
                          /\ UNCHANGED backup_source
                     ELSE /\ backup_source' = ct.ret
                          /\ pc' = "preventive"
                          /\ UNCHANGED <<result, exit>>
    /\ UNCHANGED <<run, now, cfg, zipFiles, archiveGood, ssh, attempts, lastAttempt, managers,
                   detection, mode, preventive_result, errors>>
    /\ UNCHANGED harness

\* Variant of step 4 that appends a failed preventive backup to errors.
Preventive_Accumulates ==
    /\ pc = "preventive"
    /\ \E o \in RemoteOutcomes :
          LET r == ExecuteCommand(ssh, o)
              p == CreatePreventiveBackup(r, now)
          IN /\ preventive_result' = p
             /\ cmds' = Append(cmds, Cmd("preventive", PreRollbackPath(now), r.return_code))
             /\ errors' = IF ~p.success THEN Append(errors, p.message) ELSE errors
    /\ pc' = "stop"
    /\ UNCHANGED <<run, now, cfg, zipFiles, archiveGood, ssh, attempts, lastAttempt,
                   managers, bmTemp, detection, mode, backup_source, temp_folder,
                   exit, result>>
    /\ UNCHANGED harness

\* Step 4 (lines 214-227): preventive backup; a failure is only logged.
Preventive ==
    /\ pc = "preventive"
    /\ \E o \in RemoteOutcomes :
          LET r == ExecuteCommand(ssh, o) IN
          /\ preventive_result' = CreatePreventiveBackup(r, now)
          /\ cmds' = Append(cmds, Cmd("preventive", PreRollbackPath(now), r.return_code))
    /\ pc' = "stop"
    /\ UNCHANGED <<run, now, cfg, zipFiles, archiveGood, ssh, attempts, lastAttempt, managers,
                   bmTemp, detection, mode, backup_source, temp_folder, errors,
                   exit, result>>
    /\ UNCHANGED harness

\* What a failed stop / delete / start appends to errors.
StepError(prefix, r) == <<prefix>> \o r.stderr

\* Variant of step 5 that returns a failed result when the stop failed.
StopSite_Fatal ==
    /\ pc = "stop"
    /\ \E o \in RemoteOutcomes :
          LET r == ExecuteCommand(ssh, o) IN
          /\ cmds' = Append(cmds, Cmd("stop", SitePath, r.return_code))
          /\ UNCHANGED errors
          /\ IF ~r.success
             THEN Return(RollbackResult(FALSE, mode, BackupPath,
                                        preventive_result.backup_path, temp_folder,
                                        StepError("Failed to stop site: ", r)),
                         "stop_fail")
             ELSE /\ pc' = "delete"
                  /\ UNCHANGED <<exit, result>>
    /\ UNCHANGED <<run, now, cfg, zipFiles, archiveGood, ssh, attempts, lastAttempt, managers,
                   bmTemp, detection, mode, backup_source, temp_folder,
                   preventive_result>>
    /\ UNCHANGED harness

\* Step 5 (lines 229-235): stop the site.
StopSite ==
    /\ pc = "stop"
    /\ \E o \in RemoteOutcomes :
          LET r == ExecuteCommand(ssh, o) IN
          /\ cmds' = Append(cmds, Cmd("stop", SitePath, r.return_code))
          /\ errors' = IF ~r.success
                       THEN Append(errors, StepError("Failed to stop site: ", r))
                       ELSE errors
    /\ pc' = "delete"
    /\ UNCHANGED <<run, now, cfg, zipFiles, archiveGood, ssh, attempts, lastAttempt, managers,
                   bmTemp, detection, mode, backup_source, temp_folder,
                   preventive_result, exit, result>>
    /\ UNCHANGED harness

\* Step 6 (lines 237-242): delete the site content, keeping the root.
DeleteContent ==
    /\ pc = "delete"
    /\ \E o \in RemoteOutcomes :
          LET r == ExecuteCommand(ssh, o) IN
          /\ cmds' = Append(cmds, Cmd("delete", SitePath, r.return_code))
          /\ errors' = IF ~r.success
                       THEN Append(errors, StepError("Failed to delete content: ", r))
                       ELSE errors
    /\ pc' = "copy"
    /\ UNCHANGED <<run, now, cfg, zipFiles, archiveGood, ssh, attempts, lastAttempt, managers,
                   bmTemp, detection, mode, backup_source, temp_folder,
                   preventive_result, exit, result>>
    /\ UNCHANGED harness

\* Step 7 (lines 244-256): copy the backup source to the site root; a
\* failure returns at once.
Copy ==
    /\ pc = "copy"
    /\ \E o \in CopyOutcomes :
          LET c == CopyFiles(ExecuteCommand(ssh, o)) IN
          /\ cmds' = Append(cmds, Cmd("copy", backup_source, c.return_code))
          /\ IF ~c.success
             THEN Return(RollbackResult(FALSE, mode, BackupPath,
                                        preventive_result.backup_path, temp_folder,
                                        <<"Failed to copy files: ">> \o c.stderr),
                         "copy_fail")
             ELSE /\ pc' = "start"
                  /\ UNCHANGED <<result, exit>>
    /\ UNCHANGED <<run, now, cfg, zipFiles, archiveGood, ssh, attempts, lastAttempt, managers,
                   bmTemp, detection, mode, backup_source, temp_folder,
                   preventive_result, errors>>
    /\ UNCHANGED harness

\* Variant of step 8 that goes back to stopping the site when the start
\* failed for the first time.
StartSite_BackToStop ==
    /\ pc = "start"
    /\ \E o \in RemoteOutcomes :
          LET r == ExecuteCommand(ssh, o) IN
          /\ cmds' = Append(cmds, Cmd("start", SitePath, r.return_code))
          /\ errors' = IF ~r.success
                       THEN Append(errors, StepError("Failed to start site: ", r))
                       ELSE errors
          /\ pc' = IF ~r.success /\ errors = <<>> THEN "stop" ELSE "finalize"
    /\ UNCHANGED <<run, now, cfg, zipFiles, archiveGood, ssh, attempts, lastAttempt, managers,
                   bmTemp, detection, mode, backup_source, temp_folder,
                   preventive_result, exit, result>>
    /\ UNCHANGED harness

\* Step 8 (lines 258-263): start the site.
StartSite ==
    /\ pc = "start"
    /\ \E o \in RemoteOutcomes :
          LET r == ExecuteCommand(ssh, o) IN
          /\ cmds' = Append(cmds, Cmd("start", SitePath, r.return_code))
          /\ errors' = IF ~r.success
                       THEN Append(errors, StepError("Failed to start site: ", r))
                       ELSE errors
    /\ pc' = "finalize"
    /\ UNCHANGED <<run, now, cfg, zipFiles, archiveGood, ssh, attempts, lastAttempt, managers,
                   bmTemp, detection, mode, backup_source, temp_folder,
                   preventive_result, exit, result>>
    /\ UNCHANGED harness

\* Variant of the final status that reports a run with accumulated errors
\* as failed.
FinalResult_FailOnErrors(errs, m, pbp, tf) ==
    IF errs # <<>>
    THEN RollbackResult(FALSE, m, BackupPath, pbp, tf,
                        <<"Completed with errors: ">> \o Join(errs))
    ELSE RollbackResult(TRUE, m, BackupPath, pbp, tf, <<>>)

\* Variant of the final status whose error field is the joined step errors
\* without the leading marker.
FinalResult_NoMarker(errs, m, pbp, tf) ==
    IF errs # <<>>
    THEN RollbackResult(TRUE, m, BackupPath, pbp, tf, Join(errs))
    ELSE RollbackResult(TRUE, m, BackupPath, pbp, tf, <<>>)

\* The result of a run that reached the end of the sequence (lines 274-295).
FinalResult(errs, m, pbp, tf) ==
    IF errs # <<>>
    THEN RollbackResult(TRUE, m, BackupPath, pbp, tf,
                        <<"Completed with errors: ">> \o Join(errs))
    ELSE RollbackResult(TRUE, m, BackupPath, pbp, tf, <<>>)

\* Steps 9 and 10 (lines 265-295): clean up the staging directory when one
\* was created, then build the final result.
Finalize ==
    /\ pc = "finalize"
    /\ \E o \in RemoteOutcomes :
          LET cl == IF Truthy(temp_folder)
                    THEN CleanupTempFolder(bmTemp, ssh, o)
                    ELSE [raised |-> FALSE, success |-> TRUE, issued |-> FALSE,
                          rc |-> 0, temp |-> bmTemp]
          IN /\ bmTemp' = cl.temp
             /\ cmds' = IF cl.issued THEN Append(cmds, Cmd("cleanup", bmTemp, cl.rc))
                        ELSE cmds
             /\ Return(FinalResult(errors, mode, preventive_result.backup_path, temp_folder),
                       IF errors # <<>> THEN "with_errors" ELSE "clean")
    /\ UNCHANGED <<run, now, cfg, zipFiles, archiveGood, ssh, attempts, lastAttempt, managers,
                   detection, mode, backup_source, temp_folder, preventive_result, errors>>
    /\ UNCHANGED harness

\* DeveloperAgent._disconnect_ssh
DisconnectSsh(s) == IF s.exists THEN Disconnect(s) ELSE s

\* finally (lines 306-308): disconnect, then the result is returned.
Finally ==
    /\ pc = "finally"
    /\ ssh' = DisconnectSsh(ssh)
    /\ pc' = "done"
    /\ UNCHANGED <<run, now, cfg, zipFiles, archiveGood, attempts, lastAttempt, managers, bmTemp,
                   detection, mode, backup_source, temp_folder, preventive_result,
                   errors, cmds, exit, result>>
    /\ UNCHANGED harness

Next ==
    \/ Tick
    \/ StartRun
    \/ Construct
    \/ Attempt
    \/ Classify
    \/ Stage
    \/ Preventive
    \/ StopSite
    \/ DeleteContent
    \/ Copy
    \/ StartSite
    \/ Finalize
    \/ Finally

Spec == Init /\ [][Next]_vars

\* The statements of one execute_rollback call, in program order: the
\* call is sequential code on one thread, so whichever statement pc points
\* at is executed next once the remote command it waits for has returned.
RunStep ==
    \/ Construct
    \/ Attempt
    \/ Classify
    \/ Stage
    \/ Preventive
    \/ StopSite
    \/ DeleteContent
    \/ Copy
    \/ StartSite
    \/ Finalize
    \/ Finally

\* Calls of execute_rollback one after the other.  The wall clock stays at
\* its first reading: no statement waits for it, it only names the
\* preventive-backup directory.
NextLive ==
    \/ StartRun
    \/ RunStep

\* execute_rollback with every remote command returning (each is bounded
\* by its timeout): a call that has started keeps executing statements.
\* When the next call is made stays unconstrained.
SpecLive == Init /\ [][NextLive]_vars /\ WF_vars(RunStep)

\* ------------------------------------------ the tool objects called directly
\* A caller that builds one SSHExecutor from a configuration and then calls
\* connect, disconnect, execute_command and IISManager.copy_files on it in
\* any order.  pc is "t_start" before the constructor ran, "t_invalid" when it
\* raised, "t_ready" between calls and "t_connecting" inside connect().

\* The variables of execute_rollback, which direct calls leave alone.
rollbackLocals == <<run, now, zipFiles, archiveGood, managers, bmTemp, detection, mode,
                    backup_source, temp_folder, preventive_result, errors, cmds, exit,
                    result>>

InitTools ==
    /\ pc = "t_start"
    /\ run = 0
    /\ now = 0
    /\ cfg = [password |-> TRUE, key |-> "none"]
    /\ zipFiles = 0
    /\ archiveGood = TRUE
    /\ ssh = NoSsh
    /\ attempts = 0
    /\ lastAttempt = "none"
    /\ managers = FALSE
    /\ bmTemp = NonePath
    /\ detection = NoDetection
    /\ mode = ""
    /\ backup_source = EmptyPath
    /\ temp_folder = EmptyPath
    /\ preventive_result = NoPreventive
    /\ errors = <<>>
    /\ cmds = <<>>
    /\ exit = ""
    /\ result = NoResult
    /\ mock = NoCalls
    /\ last = NoCall
    /\ nops = 0
    /\ host = NoHost
    /\ block = "none"

\* SSHExecutor(config) (lines 67-81): the object exists only when
\* _validate_config raised nothing.
DoInit ==
    /\ pc = "t_start"
    /\ \E c \in Configs :
          /\ cfg' = c
          /\ IF ValidConfig(c)
             THEN /\ ssh' = NewExecutor
                  /\ pc' = "t_ready"
                  /\ last' = Call("init", FALSE, FALSE, "", TRUE, 0, FALSE, 0)
             ELSE /\ ssh' = NoSsh
                  /\ pc' = "t_invalid"
                  /\ last' = Call("init", FALSE, TRUE, "ValueError", FALSE, 0, FALSE, 0)
    /\ nops' = nops + 1
    /\ UNCHANGED <<attempts, lastAttempt, mock>>
    /\ UNCHANGED rollbackLocals
    /\ UNCHANGED <<host, block>>

\* Variant of connect() that opens a new client even when connected.
DoConnect_NoGuard ==
    /\ pc = "t_ready"
    /\ nops < MaxOps
    /\ nops' = nops + 1
    /\ ssh' = [ssh EXCEPT !.client = TRUE]
    /\ attempts' = 0
    /\ pc' = "t_connecting"
    /\ UNCHANGED <<last, lastAttempt, mock, cfg>>
    /\ UNCHANGED rollbackLocals
    /\ UNCHANGED <<host, block>>

\* connect(), up to the retried call (lines 115-123): a connected session
\* returns True at once; otherwise a new client object is created.
DoConnect ==
    /\ pc = "t_ready"
    /\ nops < MaxOps
    /\ nops' = nops + 1
    /\ IF ssh.connected
       THEN /\ last' = Call("connect", TRUE, FALSE, "", TRUE, 0, FALSE, 0)
            /\ UNCHANGED <<ssh, attempts, pc>>
       ELSE /\ ssh' = [ssh EXCEPT !.client = TRUE]
            /\ attempts' = 0
            /\ pc' = "t_connecting"
            /\ UNCHANGED last
    /\ UNCHANGED <<lastAttempt, mock, cfg>>
    /\ UNCHANGED rollbackLocals
    /\ UNCHANGED <<host, block>>

\* Variant of the retry policy that allows one attempt more.
RetryDecision_OneMore(n, a) ==
    IF a = "ok" THEN "return"
    ELSE IF n < MaxAttempts + 1 THEN "retry"
    ELSE "raise"

\* The @retry decorator of _connect_with_retry (lines 140-143) after the
\* n-th client.connect call ended as a: no retry= predicate is given, so
\* every exception is retried; stop_after_attempt ends the loop and, with
\* no reraise, tenacity raises RetryError.
RetryDecision(n, a) ==
    IF a = "ok" THEN "return"
    ELSE IF n < MaxAttempts THEN "retry"
    ELSE "raise"

\* One client.connect call of _connect_with_retry (lines 145-165) and what
\* connect() does with its outcome (lines 125-138).
DoConnectAttempt ==
    /\ pc = "t_connecting"
    /\ attempts' = attempts + 1
    /\ \E a \in AttemptOutcomes :
          LET d == RetryDecision(attempts + 1, a)
          IN /\ lastAttempt' = a
             /\ mock' = [mock EXCEPT !.connect = @ + 1,
                                     !.opened = IF a = "ok" THEN @ + 1 ELSE @]
             /\ IF d = "return"
                THEN /\ ssh' = [ssh EXCEPT !.connected = TRUE, !.open = TRUE]
                     /\ pc' = "t_ready"
                     /\ last' = Call("connect", FALSE, FALSE, "", TRUE, 0, FALSE, 0)
                ELSE IF d = "retry"
                THEN UNCHANGED <<ssh, pc, last>>
                ELSE /\ ssh' = [ssh EXCEPT !.connected = FALSE]
                     /\ pc' = "t_ready"
                     /\ last' = Call("connect", FALSE, TRUE, "RetryError", FALSE, 0, FALSE, 0)
             /\ block' = IF block # "entering" \/ d = "retry" THEN block
                         ELSE IF d = "return" THEN "in"
                         ELSE "none"
    /\ UNCHANGED <<nops, cfg, host>>
    /\ UNCHANGED rollbackLocals

\* The guard of disconnect (line 173): close() is called on the client.
ClosesTransport(s) == s.client /\ s.connected

\* disconnect() (lines 167-178).
DoDisconnect ==
    /\ pc = "t_ready"
    /\ nops < MaxOps
    /\ nops' = nops + 1
    /\ ssh' = Disconnect(ssh)
    /\ mock' = [mock EXCEPT !.close = IF ClosesTransport(ssh) THEN @ + 1 ELSE @]
    /\ last' = Call("disconnect", ssh.connected, FALSE, "", FALSE, 0, FALSE, 0)
    /\ UNCHANGED <<pc, attempts, lastAttempt, cfg>>
    /\ UNCHANGED rollbackLocals
    /\ UNCHANGED <<host, block>>

\* What the host answers to a command sent by a direct call: a transport
\* exception, or one of these exit codes (robocopy: 0-2 fine, 3 files
\* copied and extras found, 8 and 16 errors).
ExitCodes == {0, 1, 2, 3, 8, 16}

HostOutcomes ==
    { [exc |-> FALSE, rc |-> c, stdout |-> <<>>,
       stderr |-> IF c = 0 THEN <<>> ELSE <<"denied">>] : c \in ExitCodes }
    \cup { [exc |-> TRUE, rc |-> 0, stdout |-> <<>>, stderr |-> <<>>] }

\* Variant of execute_command that marks the session disconnected when the
\* execution itself failed.
DoExecuteCommand_DropsOnError ==
    /\ pc = "t_ready"
    /\ nops < MaxOps
    /\ nops' = nops + 1
    /\ \E o \in HostOutcomes :
          LET r == ExecuteCommand(ssh, o) IN
          /\ mock' = [mock EXCEPT !.exec = IF r.raised THEN @ ELSE @ + 1]
          /\ last' = Call("exec", ssh.connected, r.raised,
                          IF r.raised THEN "RuntimeError" ELSE "",
                          r.success, r.return_code, o.exc, o.rc)
          /\ ssh' = IF ~r.raised /\ r.return_code = -1
                    THEN [ssh EXCEPT !.connected = FALSE]
                    ELSE ssh
    /\ UNCHANGED <<pc, attempts, lastAttempt, cfg>>
    /\ UNCHANGED rollbackLocals
    /\ UNCHANGED <<host, block>>

\* execute_command(command) (lines 180-248).
DoExecuteCommand ==
    /\ pc = "t_ready"
    /\ nops < MaxOps
    /\ nops' = nops + 1
    /\ \E o \in HostOutcomes :
          LET r == ExecuteCommand(ssh, o) IN
          /\ mock' = [mock EXCEPT !.exec = IF r.raised THEN @ ELSE @ + 1]
          /\ last' = Call("exec", ssh.connected, r.raised,
                          IF r.raised THEN "RuntimeError" ELSE "",
                          r.success, r.return_code, o.exc, o.rc)
    /\ UNCHANGED <<pc, ssh, attempts, lastAttempt, cfg>>
    /\ UNCHANGED rollbackLocals
    /\ UNCHANGED <<host, block>>

\* IISManager(ssh).copy_files(source, destination) (lines 341-392); the
\* RuntimeError of a disconnected session passes through.
DoCopyFiles ==
    /\ pc = "t_ready"
    /\ nops < MaxOps
    /\ nops' = nops + 1
    /\ \E o \in HostOutcomes :
          LET r == ExecuteCommand(ssh, o)
              c == CopyFiles(r)
          IN /\ mock' = [mock EXCEPT !.exec = IF r.raised THEN @ ELSE @ + 1]
             /\ last' = IF r.raised
                        THEN Call("copy", ssh.connected, TRUE, "RuntimeError", FALSE, 0,
                                  o.exc, o.rc)
                        ELSE Call("copy", ssh.connected, FALSE, "", c.success,
                                  c.return_code, o.exc, o.rc)
    /\ UNCHANGED <<pc, ssh, attempts, lastAttempt, cfg>>
    /\ UNCHANGED rollbackLocals
    /\ UNCHANGED <<host, block>>

\* `with executor:` reaches __enter__ (lines 277-280), which calls
\* connect(); the block is entered when connect() returns, and is not
\* entered, and __exit__ not called, when connect() raises.
DoEnter ==
    /\ pc = "t_ready"
    /\ block = "none"
    /\ nops < MaxOps
    /\ nops' = nops + 1
    /\ IF ssh.connected
       THEN /\ last' = Call("connect", TRUE, FALSE, "", TRUE, 0, FALSE, 0)
            /\ block' = "in"
            /\ UNCHANGED <<ssh, attempts, pc>>
       ELSE /\ ssh' = [ssh EXCEPT !.client = TRUE]
            /\ attempts' = 0
            /\ pc' = "t_connecting"
            /\ block' = "entering"
            /\ UNCHANGED last
    /\ UNCHANGED <<lastAttempt, mock, cfg, host>>
    /\ UNCHANGED rollbackLocals

\* Variant of __exit__ that disconnects only when the block ended normally.
DoExit_OnlyOnNormalEnd ==
    /\ pc = "t_ready"
    /\ block = "in"
    /\ \E exc \in BOOLEAN :
          /\ ssh' = IF exc THEN ssh ELSE Disconnect(ssh)
          /\ mock' = [mock EXCEPT !.close = IF ~exc /\ ClosesTransport(ssh) THEN @ + 1 ELSE @]
          /\ last' = Call("exit", ssh.connected, exc, IF exc THEN "Exception" ELSE "",
                          FALSE, 0, FALSE, 0)
    /\ block' = "exited"
    /\ UNCHANGED <<pc, nops, attempts, lastAttempt, cfg, host>>
    /\ UNCHANGED rollbackLocals

\* The with-block ends, normally or by an exception raised in it, and
\* __exit__ runs (lines 282-284): it disconnects and returns None, so an
\* exception goes on to the caller.
DoExit ==
    /\ pc = "t_ready"
    /\ block = "in"
    /\ \E exc \in BOOLEAN :
          /\ ssh' = Disconnect(ssh)
          /\ mock' = [mock EXCEPT !.close = IF ClosesTransport(ssh) THEN @ + 1 ELSE @]
          /\ last' = Call("exit", ssh.connected, exc, IF exc THEN "Exception" ELSE "",
                          FALSE, 0, FALSE, 0)
    /\ block' = "exited"
    /\ UNCHANGED <<pc, nops, attempts, lastAttempt, cfg, host>>
    /\ UNCHANGED rollbackLocals

NextTools ==
    \/ DoInit
    \/ DoConnect
    \/ DoConnectAttempt
    \/ DoDisconnect
    \/ DoExecuteCommand
    \/ DoCopyFiles
    \/ DoEnter
    \/ DoExit

SpecTools == InitTools /\ [][NextTools]_vars

\* --------------------------------------------- the managers called directly
\* A caller that holds an IISManager and a BackupManager built over a
\* Connected SSHExecutor, as _connect_ssh builds them, and calls their
\* methods in any order.  cmds holds the commands of the latest call.

\* The remote hosts considered: the site started, stopped or not defined;
\* its content directory missing, empty or holding some entries.
Hosts ==
    { h \in [site : {"Started", "Stopped", "absent"}, root : BOOLEAN,
             entries : SUBSET Entries] : ~h.root => h.entries = {} }

\* The variables no manager call changes.
managerFrame == <<pc, run, cfg, zipFiles, archiveGood, ssh, attempts, lastAttempt, managers,
                  detection, mode, backup_source, temp_folder, preventive_result, errors,
                  exit, result, block>>

InitManagers ==
    /\ pc = "m_ready"
    /\ run = 0
    /\ now = 0
    /\ cfg = [password |-> TRUE, key |-> "none"]
    /\ zipFiles = 0
    /\ archiveGood = TRUE
    /\ ssh = [NewExecutor EXCEPT !.client = TRUE, !.connected = TRUE, !.open = TRUE]
    /\ attempts = 1
    /\ lastAttempt = "ok"
    /\ managers = TRUE
    /\ bmTemp = NonePath
    /\ detection = NoDetection
    /\ mode = ""
    /\ backup_source = EmptyPath
    /\ temp_folder = EmptyPath
    /\ preventive_result = NoPreventive
    /\ errors = <<>>
    /\ cmds = <<>>
    /\ exit = ""
    /\ result = NoResult
    /\ mock = [NoCalls EXCEPT !.connect = 1, !.opened = 1]
    /\ last = NoCall
    /\ nops = 0
    /\ host \in Hosts
    /\ block = "none"

\* What the host may answer to appcmd stop/start site: it cannot succeed
\* for a site that is not defined.
SiteOutcomes == {o \in RemoteOutcomes : host.site = "absent" => (o.exc \/ o.rc # 0)}

\* iis.restart_site(site_name) (lines 227-263).
MgrRestartSite ==
    /\ pc = "m_ready"
    /\ nops < MaxCalls
    /\ nops' = nops + 1
    /\ \E o1 \in SiteOutcomes, o2 \in SiteOutcomes :
          LET r == RestartSite(ssh, o1, o2) IN
          /\ cmds' = r.issued
          /\ mock' = [mock EXCEPT !.exec = @ + Len(r.issued)]
          /\ last' = Call("restart", ssh.connected, r.raised, "", r.success, 0,
                          o1.exc, o1.rc)
          /\ host' = [host EXCEPT !.site =
                         IF Len(r.issued) = 2 /\ r.issued[2].rc = 0 THEN "Started"
                         ELSE IF Len(r.issued) >= 1 /\ r.issued[1].rc = 0 THEN "Stopped"
                         ELSE @]
    /\ UNCHANGED <<now, bmTemp>>
    /\ UNCHANGED managerFrame

\* What the host answers to the state query (lines 275-279): the script
\* prints the state of a defined site and the word NotFound for a site
\* that is not defined, and ends with exit code 0 either way; or the
\* command fails.
StateOutcomes ==
    { [exc |-> FALSE, rc |-> 0,
       stdout |-> <<IF host.site = "absent" THEN "NotFound" ELSE host.site, "\n">>,
       stderr |-> <<>>],
      [exc |-> FALSE, rc |-> 1, stdout |-> <<>>, stderr |-> <<"denied">>],
      [exc |-> TRUE, rc |-> 0, stdout |-> <<>>, stderr |-> <<>>] }

\* iis.get_site_state(site_name) (lines 265-286).
MgrGetSiteState ==
    /\ pc = "m_ready"
    /\ nops < MaxCalls
    /\ nops' = nops + 1
    /\ \E o \in StateOutcomes :
          LET r == ExecuteCommand(ssh, o)
              v == GetSiteState(r)
          IN /\ cmds' = <<Cmd("state", SitePath, r.return_code)>>
             /\ mock' = [mock EXCEPT !.exec = @ + 1]
             /\ last' = Call("state", ssh.connected, r.raised, "", ~v.none, r.return_code,
                             o.exc, o.rc) @@ [text |-> v.text]
    /\ UNCHANGED <<now, bmTemp, host>>
    /\ UNCHANGED managerFrame

\* What the deletion script does on host h (lines 314-329).  With
\* keep_root, Remove-Item path\* -Recurse -Force -ErrorAction
\* SilentlyContinue removes what can be removed and is silent about the
\* rest, and the second pass fails on the same files with a non-terminating
\* error; without keep_root, Remove-Item path -Recurse -Force removes the
\* directory unless something in it cannot be removed.
RemoveContents(h, keep_root) ==
    IF ~h.root THEN h
    ELSE IF keep_root THEN [h EXCEPT !.entries = @ \cap {"locked"}]
    ELSE IF "locked" \in h.entries THEN [h EXCEPT !.entries = {"locked"}]
    ELSE [h EXCEPT !.root = FALSE, !.entries = {}]

\* iis.delete_site_content(site_path, keep_root) (lines 288-339).  The
\* script ends with Write-Host, so its exit code is 0 whenever it ran,
\* whatever the Remove-Item commands achieved.
MgrDeleteSiteContent ==
    /\ pc = "m_ready"
    /\ nops < MaxCalls
    /\ nops' = nops + 1
    /\ \E keep_root \in BOOLEAN, o \in RemoteOutcomes :
          LET r == ExecuteCommand(ssh, o) IN
          /\ cmds' = <<Cmd("delete", SitePath, r.return_code)>>
          /\ mock' = [mock EXCEPT !.exec = @ + 1]
          /\ host' = IF r.success THEN RemoveContents(host, keep_root) ELSE host
          /\ last' = Call("delete", ssh.connected, r.raised, "", r.success, r.return_code,
                          o.exc, o.rc) @@ [keep_root |-> keep_root]
    /\ UNCHANGED <<now, bmTemp>>
    /\ UNCHANGED managerFrame

\* The exception class behind the message of a raised create_temp_folder.
ExcKind(ct) ==
    IF ~ct.raised THEN ""
    ELSE IF ct.exc = <<"name 'basePath' is not defined">> THEN "NameError"
    ELSE "RuntimeError"

\* backup.create_temp_folder(base_path) (lines 263-298).
MgrCreateTempFolder ==
    /\ pc = "m_ready"
    /\ nops < MaxCalls
    /\ nops' = nops + 1
    /\ \E o \in RemoteOutcomes :
          LET ct == CreateTempFolder(bmTemp, now, ssh, o) IN
          /\ bmTemp' = ct.temp
          /\ cmds' = IF ct.issued THEN <<Cmd("mktemp", ct.ret, ct.rc)>> ELSE <<>>
          /\ mock' = [mock EXCEPT !.exec = IF ct.issued THEN @ + 1 ELSE @]
          /\ last' = Call("mktemp", ssh.connected, ct.raised, ExcKind(ct), ~ct.raised, ct.rc,
                          o.exc, o.rc) @@ [path |-> ct.ret]
    /\ UNCHANGED <<now, host>>
    /\ UNCHANGED managerFrame

\* backup.temp_folder = path: the caller records a staging directory, as
\* the cleanup tests do.
MgrAssignTempFolder ==
    /\ pc = "m_ready"
    /\ nops < MaxCalls
    /\ nops' = nops + 1
    /\ bmTemp' = TempPath(now)
    /\ cmds' = <<>>
    /\ last' = Call("assign", ssh.connected, FALSE, "", TRUE, 0, FALSE, 0)
    /\ UNCHANGED <<now, host, mock>>
    /\ UNCHANGED managerFrame

\* backup.cleanup_temp_folder() (lines 389-427).
MgrCleanupTempFolder ==
    /\ pc = "m_ready"
    /\ nops < MaxCalls
    /\ nops' = nops + 1
    /\ \E o \in RemoteOutcomes :
          LET cl == CleanupTempFolder(bmTemp, ssh, o) IN
          /\ bmTemp' = cl.temp
          /\ cmds' = IF cl.issued THEN <<Cmd("cleanup", bmTemp, cl.rc)>> ELSE <<>>
          /\ mock' = [mock EXCEPT !.exec = IF cl.issued THEN @ + 1 ELSE @]
          /\ last' = Call("cleanup", ssh.connected, cl.raised, "", cl.success, cl.rc,
                          o.exc, o.rc)
    /\ UNCHANGED <<now, host>>
    /\ UNCHANGED managerFrame

\* Texts a succeeded count command may leave on standard output: a count
\* on a line of its own, nothing, blank space, text that is no number, or
\* a signed number.
CountTexts ==
    { <<"0", "\n">>, <<"1", "\n">>, <<"2", "\n">>, <<"1", "0", "\n">>,
      <<>>, <<"\n">>, <<" ", "\n">>, <<"x", "\n">>, <<"1", " ", "2", "\n">>,
      <<"-", "1", "\n">>, <<"-", "0", "\n">>, <<"+", "1", "\n">> }

\* What the host may answer to the count command of detect_backup_type.
DetectOutcomes ==
    { [exc |-> FALSE, rc |-> 0, stdout |-> t, stderr |-> <<>>] : t \in CountTexts }
    \cup { [exc |-> FALSE, rc |-> 1, stdout |-> <<>>, stderr |-> <<"denied">>],
           [exc |-> TRUE, rc |-> 0, stdout |-> <<>>, stderr |-> <<>>] }

\* backup.detect_backup_type(backup_path) (lines 96-180).
MgrDetectBackupType ==
    /\ pc = "m_ready"
    /\ nops < MaxCalls
    /\ nops' = nops + 1
    /\ \E o \in DetectOutcomes, i \in InfoOutcomes :
          LET r == ExecuteCommand(ssh, o)
              d == DetectBackupType(r, i)
          IN /\ cmds' = DetectCmds(r, d, i)
             /\ mock' = [mock EXCEPT !.exec = @ + Len(DetectCmds(r, d, i))]
             /\ last' = Call("detect", ssh.connected, r.raised, "", d.type # "none",
                             r.return_code, o.exc, o.rc)
                        @@ [stdout |-> r.stdout, detection |-> d]
    /\ UNCHANGED <<now, bmTemp, host>>
    /\ UNCHANGED managerFrame

NextManagers ==
    \/ MgrRestartSite
    \/ MgrGetSiteState
    \/ MgrDeleteSiteContent
    \/ MgrCreateTempFolder
    \/ MgrAssignTempFolder
    \/ MgrCleanupTempFolder
    \/ MgrDetectBackupType

SpecManagers == InitManagers /\ [][NextManagers]_vars

\* ------------------------------------------------------- debugger_agent.py
\* DebuggerAgent.analyze_errors called on lists of error messages.  A
\* message is represented by the set of pattern names it contains (lower
\* case), which is all analyze_error looks at; errors holds the list that
\* is passed to the call and last the DiagnosticReport it returned.

\* The keys of error_patterns, in the order the dictionary is built.
PatternNames ==
    <<"connection_refused", "authentication_failed", "site_not_found", "path_not_found",
      "access_denied", "no_zip_found", "multiple_zips_found">>

\* error_patterns[name]['severity']
PatternSeverity(name) ==
    IF name \in {"connection_refused", "authentication_failed", "access_denied"}
    THEN "high" ELSE "medium"

\* error_patterns[name]['category'].value
PatternCategory(name) ==
    CASE name = "connection_refused" -> "ssh_connection"
      [] name = "authentication_failed" -> "authentication"
      [] name = "site_not_found" -> "iis_operation"
      [] name \in {"path_not_found", "access_denied"} -> "file_operation"
      [] OTHER -> "backup_detection"

\* Messages: any combination of at most MaxPatterns pattern names.
Messages ==
    {m \in SUBSET {PatternNames[k] : k \in 1..Len(PatternNames)} : Cardinality(m) <= MaxPatterns}

\* Lists of at most MaxErrors messages.
ErrorLists == UNION {[1..n -> Messages] : n \in 0..MaxErrors}

\* analyze_error: the first pattern, in dictionary order, that the message
\* contains decides category and severity; a message that contains none
\* is unknown with severity medium.
AnalyzeError(m) ==
    IF \E k \in 1..Len(PatternNames) : PatternNames[k] \in m
    THEN LET first == CHOOSE k \in 1..Len(PatternNames) :
                         /\ PatternNames[k] \in m
                         /\ \A j \in 1..(k - 1) : PatternNames[j] \notin m
         IN [category |-> PatternCategory(PatternNames[first]), message |-> m,
             severity |-> PatternSeverity(PatternNames[first])]
    ELSE [category |-> "unknown", message |-> m, severity |-> "medium"]

\* The score analyze_errors appends for one analysis (lines 301-306).
SeverityScore(severity) ==
    IF severity \in {"high", "critical"} THEN 2
    ELSE IF severity = "medium" THEN 1
    ELSE 0

RECURSIVE SumOf(_)
SumOf(scores) == IF scores = <<>> THEN 0 ELSE Head(scores) + SumOf(Tail(scores))

RECURSIVE MaxOf(_)
MaxOf(scores) ==
    IF Len(scores) = 1 THEN scores[1]
    ELSE LET rest == MaxOf(Tail(scores)) IN IF Head(scores) >= rest THEN Head(scores) ELSE rest

\* Variant of the health rule that reports degraded as soon as the scores
\* sum to the number of errors.
OverallHealth_DegradedAtEqual(scores) ==
    IF scores = <<>> THEN "healthy"
    ELSE IF MaxOf(scores) >= 2 THEN "critical"
    ELSE IF SumOf(scores) >= Len(scores) THEN "degraded"
    ELSE "warning"

\* Determine overall health (lines 315-323).
OverallHealth(scores) ==
    IF scores = <<>> THEN "healthy"
    ELSE IF MaxOf(scores) >= 2 THEN "critical"
    ELSE IF SumOf(scores) > Len(scores) THEN "degraded"
    ELSE "warning"

\* analyze_errors(errors) (lines 277-336): the DiagnosticReport.
AnalyzeErrors(errs) ==
    LET analyses == [k \in 1..Len(errs) |-> AnalyzeError(errs[k])]
        severity_scores == [k \in 1..Len(errs) |-> SeverityScore(analyses[k].severity)]
        overall_health == OverallHealth(severity_scores)
    IN [op |-> "analyze",
        errors |-> analyses,
        overall_health |-> overall_health,
        recommendations |-> [k \in 1..Len(errs) |-> analyses[k].category],
        requires_attention |-> overall_health \in {"critical", "degraded"}]

InitDebugger ==
    /\ pc = "d_ready"
    /\ run = 0
    /\ now = 0
    /\ cfg = [password |-> TRUE, key |-> "none"]
    /\ zipFiles = 0
    /\ archiveGood = TRUE
    /\ ssh = NoSsh
    /\ attempts = 0
    /\ lastAttempt = "none"
    /\ managers = FALSE
    /\ bmTemp = NonePath
    /\ detection = NoDetection
    /\ mode = ""
    /\ backup_source = EmptyPath
    /\ temp_folder = EmptyPath
    /\ preventive_result = NoPreventive
    /\ errors \in ErrorLists
    /\ cmds = <<>>
    /\ exit = ""
    /\ result = NoResult
    /\ mock = NoCalls
    /\ last = NoCall
    /\ nops = 0
    /\ host = NoHost
    /\ block = "none"

\* debugger.analyze_errors(errors) (lines 277-336).
DoAnalyzeErrors ==
    /\ pc = "d_ready"
    /\ last' = AnalyzeErrors(errors)
    /\ pc' = "d_done"
    /\ UNCHANGED <<run, now, cfg, zipFiles, archiveGood, ssh, attempts, lastAttempt,
                   managers, bmTemp, detection, mode, backup_source, temp_folder,
                   preventive_result, errors, cmds, exit, result, mock, nops, host, block>>

NextDebugger == DoAnalyzeErrors

SpecDebugger == InitDebugger /\ [][NextDebugger]_vars

\* ------------------------------------------------------------------ claims
\* The command log holds a command of kind op.
Issued(op) == \E k \in 1..Len(cmds) : cmds[k].op = op

\* The command log holds a command of kind op that ended with an exit code
\* in the set codes.
IssuedWith(op, codes) == \E k \in 1..Len(cmds) : cmds[k].op = op /\ cmds[k].rc \in codes

\* Exit codes of a failed command, and of a failed restore copy.
FailCodes == {-1, 1}
CopyFailCodes == {-1, 8}

Returned == pc = "done"

\* C1: after execute_rollback has returned, by whichever return statement,
\* the session is Disconnected: connected is false and the transport is
\* closed.
C1_DisconnectedAfterReturn ==
    Returned => (~ssh.connected /\ ~ssh.open)

\* C1 witness: a run that connected, failed at the restore copy and has
\* returned with the session disconnected.
C1_Witness ==
    /\ Returned
    /\ exit = "copy_fail"
    /\ lastAttempt = "ok"
    /\ ~ssh.connected

\* Commands of the steps after classification.
LaterOps == {"mktemp", "extract", "preventive", "stop", "delete", "copy", "start", "cleanup"}

\* C2: in a run against a backup directory holding two or more archives,
\* classification never yields a usable mode, no command of a later step
\* is issued, the run never leaves the classification step except to
\* return, and the result has success = false.
C2_AmbiguousAborts ==
    (run > 0 /\ zipFiles >= 2) =>
        /\ detection.type \in {"unset", "none"}
        /\ \A k \in 1..Len(cmds) : cmds[k].op \notin LaterOps
        /\ pc \in {"connect", "connecting", "classify", "finally", "done"}
        /\ (Returned => ~result.success)

\* C2 witness: a returned run whose count command reported a two-digit
\* number of archives and was aborted by the classifier.
C2_Witness ==
    /\ Returned
    /\ zipFiles >= 10
    /\ detection.type = "none"
    /\ detection.zip_count = zipFiles
    /\ ~result.success

\* C3: once the restore copy has failed, the run is returning with
\* success = false and neither the start-site command nor the staging
\* cleanup is issued.
C3_CopyFailureIsFatal ==
    IssuedWith("copy", CopyFailCodes) =>
        /\ pc \in {"finally", "done"}
        /\ ~result.success
        /\ ~Issued("start")
        /\ ~Issued("cleanup")

\* C3 witness: a returned run whose stop failed, whose delete succeeded and
\* whose copy failed with exit code 8.
C3_Witness ==
    /\ Returned
    /\ IssuedWith("stop", FailCodes)
    /\ IssuedWith("delete", {0})
    /\ IssuedWith("copy", {8})
    /\ ~result.success

\* The last command issued in the current call.
LastCmd == cmds[Len(cmds)]

\* Credentials with no authentication method, or naming a missing key file.
InvalidCredentials == (~cfg.password /\ cfg.key = "none") \/ cfg.key = "missing"

\* Where a returned run stopped, read off the command log.
AbortedAtConnect ==
    cmds = <<>> /\ (InvalidCredentials \/ lastAttempt \in {"auth", "transport"})
AbortedAtClassify ==
    cmds # <<>> /\ LastCmd.op = "count" /\ detection.type = "none"
AbortedAtStagingDir ==
    cmds # <<>> /\ LastCmd.op \in {"zipinfo", "mktemp"} /\ detection.type = "zip"
AbortedAtExtract ==
    cmds # <<>> /\ LastCmd.op = "extract" /\ LastCmd.rc \in FailCodes
AbortedAtCopy ==
    cmds # <<>> /\ LastCmd.op = "copy" /\ LastCmd.rc \in CopyFailCodes

\* C4 as stated: a returned result has success = false exactly when the run
\* stopped at connect, at classification, at archive extraction or at the
\* restore copy.
C4_OnlyFourAborts ==
    Returned =>
        (~result.success <=>
            (AbortedAtConnect \/ AbortedAtClassify \/ AbortedAtExtract \/ AbortedAtCopy))

\* C4 amended: a returned result has success = false exactly when the run
\* stopped at connect, at classification, at staging (creating the staging
\* directory raised, or the extraction failed) or at the restore copy.
C4_AbortsIncludingStagingDir ==
    Returned =>
        (~result.success <=>
            (AbortedAtConnect \/ AbortedAtClassify \/ AbortedAtStagingDir
             \/ AbortedAtExtract \/ AbortedAtCopy))

\* C4 witness: a single-archive run that returned success = false from the
\* exception handler because creating the staging directory raised.
C4_Witness ==
    /\ Returned
    /\ AbortedAtStagingDir
    /\ exit = "exception"
    /\ ~result.success

\* The run went past the restore copy and has returned.
ReachedFinalize == Returned /\ IssuedWith("copy", {0, 1, 2})

StepFailed(op) == IssuedWith(op, FailCodes)

Mentions(text, token) == \E k \in 1..Len(text) : text[k] = token

\* The text a failed step contributes to the error summary.
FailureText(op) ==
    IF op = "stop" THEN "Failed to stop site: "
    ELSE IF op = "delete" THEN "Failed to delete content: "
    ELSE "Failed to start site: "

NonFatalOps == {"stop", "delete", "start"}

\* C5: a run that went past the restore copy returns success = true; its
\* error summary is non-empty exactly when stop, delete or start failed,
\* and it mentions each of the failed steps.
C5_CompletedWithWarnings ==
    ReachedFinalize =>
        /\ result.success
        /\ (result.error # <<>>) <=> (\E op \in NonFatalOps : StepFailed(op))
        /\ \A op \in NonFatalOps :
              StepFailed(op) => Mentions(result.error, FailureText(op))

\* C5 witness: stop and start failed, delete and the preventive backup
\* succeeded, and the returned result is success = true with a summary
\* naming the stop failure.
C5_Witness ==
    /\ ReachedFinalize
    /\ StepFailed("stop")
    /\ StepFailed("start")
    /\ IssuedWith("delete", {0})
    /\ IssuedWith("preventive", {0})
    /\ result.success
    /\ Mentions(result.error, "Failed to stop site: ")

\* C6 as stated: a failed preventive backup does not abort the run and
\* shows in the error summary of the final result.
C6_PreventiveFailureSurfaced ==
    StepFailed("preventive") =>
        /\ (pc \in {"finally", "done"} => Issued("stop"))
        /\ (ReachedFinalize => result.error # <<>>)

\* C6 amended: a failed preventive backup does not abort the run (the stop
\* command always follows it) and is not accumulated: the error summary is
\* non-empty exactly when stop, delete or start failed, and the failure
\* shows only as a missing preventive-backup path in the result.
C6_PreventiveFailureOnlyLogged ==
    StepFailed("preventive") =>
        /\ (pc \in {"finally", "done"} => Issued("stop"))
        /\ (ReachedFinalize =>
               /\ result.success
               /\ (result.error # <<>>) <=> (\E op \in NonFatalOps : StepFailed(op))
               /\ result.preventive_backup_path = NonePath)

\* C6 witness: the preventive backup failed, every other step succeeded,
\* and the returned result is success = true with an empty error summary.
C6_Witness ==
    /\ ReachedFinalize
    /\ StepFailed("preventive")
    /\ \A op \in NonFatalOps : IssuedWith(op, {0})
    /\ result.success
    /\ result.error = <<>>

\* C7: the classification is a function of the number of archives the
\* count command reports: 1 gives zip with zip_count 1, 0 gives folder
\* with zip_count 0, 2 or more gives none with zip_count equal to the
\* count; a failed count command gives none with zip_count -1 and no
\* backup_info.
C7_DecisionTable ==
    detection.type # "unset" =>
        /\ cmds[1].op = "count"
        /\ IF cmds[1].rc # 0
           THEN /\ detection.type = "none"
                /\ detection.zip_count = -1
                /\ detection.info = "None"
           ELSE /\ (zipFiles = 1 => detection.type = "zip" /\ detection.zip_count = 1)
                /\ (zipFiles = 0 => detection.type = "folder" /\ detection.zip_count = 0)
                /\ (zipFiles >= 2 =>
                       detection.type = "none" /\ detection.zip_count = zipFiles)

\* C7 witness: one archive in the directory, the count command succeeded
\* and the classification is zip with zip_count 1.
C7_Witness ==
    /\ zipFiles = 1
    /\ cmds # <<>>
    /\ cmds[1].rc = 0
    /\ detection.type = "zip"
    /\ detection.zip_count = 1

\* C8: when classification yields none, the run returns success = false
\* and the error is the classifier's message: the abort text with the
\* number of archives, or the check-failure text with the command's
\* standard error.
C8_ClassifierMessageVerbatim ==
    (pc \in {"finally", "done"} /\ detection.type = "none") =>
        /\ ~result.success
        /\ result.error = detection.message
        /\ (cmds[1].rc = 0 =>
               result.error = <<"Abort: ">> \o Render(zipFiles)
                              \o <<" ZIP files found (expected 1)">>)
        /\ (cmds[1].rc # 0 => Head(result.error) = "Failed to check backup: ")

\* C8 witness: a returned run whose count command failed with "denied".
C8_Witness ==
    /\ Returned
    /\ detection.type = "none"
    /\ result.error = <<"Failed to check backup: ", "denied">>

\* The connection of the current call could not be established: invalid
\* credentials, or the last connection attempt failed and no more are made.
ConnectionNotEstablished ==
    /\ pc \notin {"idle", "connect", "connecting"}
    /\ (InvalidCredentials \/ lastAttempt \in {"auth", "transport"})

\* C9: when the connection cannot be established the run returns
\* success = false and no remote command is issued.
C9_ConnectFailFast ==
    ConnectionNotEstablished =>
        /\ pc \in {"finally", "done"}
        /\ ~result.success
        /\ cmds = <<>>

\* C9 witness: a returned run whose third connection attempt failed at the
\* transport level.
C9_Witness ==
    /\ Returned
    /\ ~InvalidCredentials
    /\ attempts = MaxAttempts
    /\ lastAttempt = "transport"
    /\ ~result.success

\* C10: a single-archive run whose archive cannot be extracted returns
\* success = false with the staging directory in temp_folder, issues no
\* staging cleanup and none of the preventive-backup, stop, delete, copy
\* and start commands.
C10_FailedExtractionKeepsStaging ==
    (Returned /\ detection.type = "zip" /\ ~archiveGood) =>
        /\ ~result.success
        /\ result.temp_folder.kind = "temp"
        /\ \A op \in {"cleanup", "preventive", "stop", "delete", "copy", "start"} :
              ~Issued(op)

\* Every command of the run so far ended with exit code 0.
AllCommandsSucceeded == \A k \in 1..Len(cmds) : cmds[k].rc = 0

\* C11: a run whose backup path holds exactly one good archive and whose
\* remote commands all succeed creates a staging directory, extracts the
\* archive into it, copies from the staging directory and returns
\* success = true with mode single-archive.
C11_SingleArchiveRunSucceeds ==
    (Returned /\ detection.type = "zip" /\ archiveGood /\ AllCommandsSucceeded) =>
        /\ IssuedWith("mktemp", {0})
        /\ IssuedWith("extract", {0})
        /\ \E k \in 1..Len(cmds) : cmds[k].op = "copy" /\ cmds[k].arg.kind = "temp"
        /\ result.success
        /\ result.mode = "zip"

\* The run in progress was classified as a folder backup.
FolderMode == detection.type = "folder"

\* C12: in a folder run step 3 is skipped: no staging directory is created
\* or held, no extraction and no cleanup command is issued, the restore
\* copy reads from the backup path, and the result of every return
\* statement has an empty temp_folder.
C12_FolderModeNeverStages ==
    FolderMode =>
        /\ pc # "stage"
        /\ \A op \in {"mktemp", "extract", "cleanup"} : ~Issued(op)
        /\ ~Truthy(temp_folder)
        /\ ~Truthy(bmTemp)
        /\ \A k \in 1..Len(cmds) : cmds[k].op = "copy" => cmds[k].arg = BackupPath
        /\ pc \in {"finally", "done"} => result.temp_folder = EmptyPath

\* C12 witness: a folder run that ran to the end, its copy reading from the
\* backup path.
C12_Witness ==
    /\ Returned
    /\ FolderMode
    /\ exit = "clean"
    /\ result.success
    /\ result.temp_folder = EmptyPath
    /\ \E k \in 1..Len(cmds) : cmds[k].op = "copy" /\ cmds[k].arg = BackupPath

\* The step is a direct call of the method op that returned or raised.
Completes(op) ==
    /\ last'.op = op
    /\ \/ nops' = nops + 1 /\ pc' # "t_connecting"
       \/ pc = "t_connecting" /\ pc' = "t_ready"

\* C13: connect() on a Connected session returns True and touches neither
\* the session nor the paramiko client; whenever the session is Connected
\* exactly one transport connection was opened since the last close.
C13_ConnectIdempotent ==
    [][ /\ (Completes("connect") /\ ssh.connected) =>
              /\ ~last'.raised
              /\ last'.ret
              /\ ssh' = ssh
              /\ mock' = mock
              /\ pc' = pc
        /\ ssh'.connected => mock'.opened = mock'.close + 1 ]_vars

\* C13 witness: a second connect() on a Connected session has returned
\* True and the client has seen one connect call.
C13_Witness ==
    /\ last.op = "connect"
    /\ last.pre
    /\ last.ret
    /\ ssh.connected
    /\ mock.connect = 1
    /\ mock.opened = 1
    /\ nops >= 3

\* C14: disconnect() never raises and leaves the session Disconnected with
\* the transport closed; it calls close once when the session was
\* Connected and not at all when it was Disconnected, so the client never
\* sees more closes than opens.
C14_DisconnectIdempotent ==
    [][ Completes("disconnect") =>
           /\ ~last'.raised
           /\ ~ssh'.connected
           /\ ~ssh'.open
           /\ mock'.close = mock.close + (IF ssh.connected THEN 1 ELSE 0)
           /\ mock'.close <= mock'.opened
           /\ mock'.connect = mock.connect
           /\ mock'.exec = mock.exec ]_vars

\* C14 witness: disconnect() was called on a session already disconnected
\* after one connected period, and the client saw a single close.
C14_Witness ==
    /\ last.op = "disconnect"
    /\ ~last.pre
    /\ ~ssh.connected
    /\ mock.opened = 1
    /\ mock.close = 1

\* C15: execute_command on a Disconnected session raises the not-connected
\* RuntimeError, sends nothing to the host and changes nothing.
C15_ExecuteRequiresConnection ==
    [][ (Completes("exec") /\ ~ssh.connected) =>
           /\ last'.raised
           /\ last'.exc = "RuntimeError"
           /\ mock' = mock
           /\ ssh' = ssh ]_vars

\* C15 witness: execute_command raised on a session whose connect() had
\* failed after the last attempt; the host received no command.
C15_Witness ==
    /\ last.op = "exec"
    /\ last.raised
    /\ ~last.pre
    /\ attempts = MaxAttempts
    /\ lastAttempt = "transport"
    /\ mock.opened = 0
    /\ mock.exec = 0

\* C16: execute_command on a Connected session never raises: when the
\* execution itself fails it returns success = false with return code -1,
\* otherwise the host's exit code with success = true exactly for code 0.
C16_ExecuteReportsOutcome ==
    (last.op = "exec" /\ last.pre) =>
        /\ ~last.raised
        /\ last.hostExc => (~last.ret /\ last.rc = -1)
        /\ ~last.hostExc => (last.rc = last.hostRc /\ (last.ret <=> last.hostRc = 0))

\* C16 witness: a command whose execution failed came back as a result
\* with success = false and return code -1, after an earlier one that the
\* host received as well.
C16_Witness ==
    /\ last.op = "exec"
    /\ last.pre
    /\ last.hostExc
    /\ ~last.raised
    /\ ~last.ret
    /\ last.rc = -1
    /\ mock.exec = 2

C18_AuthFailureNotRetried ==
    /\ (pc = "t_connecting" /\ attempts > 0) => lastAttempt # "auth"
    /\ (pc = "t_ready" /\ last.op = "connect" /\ last.raised /\ lastAttempt = "auth") =>
          (attempts = 1 /\ last.exc = "AuthenticationException")

\* The configuration names neither a password nor a key path.
NoAuthMethod == ~cfg.password /\ cfg.key = "none"

\* C19: an SSHExecutor exists only for a configuration with a password or
\* a key path; for a configuration with neither the constructor raises
\* ValueError, no executor exists and the client is never called.
C19_NoExecutorWithoutAuth ==
    /\ ssh.exists => ~NoAuthMethod
    /\ (pc # "t_start" /\ NoAuthMethod) =>
          /\ pc = "t_invalid"
          /\ ~ssh.exists
          /\ last.op = "init"
          /\ last.raised
          /\ last.exc = "ValueError"
          /\ mock = NoCalls

\* C19 witness: the constructor was called with neither password nor key
\* path and raised.
C19_Witness ==
    /\ pc = "t_invalid"
    /\ NoAuthMethod
    /\ last.op = "init"
    /\ last.exc = "ValueError"
    /\ nops = 1

\* C20: copy_files on a Connected session reports success for exit codes
\* 0, 1 and 2 and failure for exit codes of 8 and above and for the
\* execution-error code -1, returning the code it judged.
C20_CopySuccessByExitCode ==
    (last.op = "copy" /\ ~last.raised) =>
        /\ last.rc = (IF last.hostExc THEN -1 ELSE last.hostRc)
        /\ last.rc \in {0, 1, 2} => last.ret
        /\ (last.rc >= 8 \/ last.rc = -1) => ~last.ret

\* C20 witness: a copy that ended with exit code 1, which is no success
\* for execute_command, was reported as succeeded.
C20_Witness ==
    /\ last.op = "copy"
    /\ last.pre
    /\ ~last.hostExc
    /\ last.hostRc = 1
    /\ last.rc = 1
    /\ last.ret

\* The step is a direct call of the manager method op.
Calls(op) == nops' = nops + 1 /\ last'.op = op

\* C21: restart_site issues the stop command first; when the stop fails it
\* returns failure and no start command is issued; when the stop succeeds
\* it issues the start command next and nothing else, and returns the
\* start command's success.
C21_RestartStopsThenStarts ==
    [][ Calls("restart") =>
           /\ ~last'.raised
           /\ Len(cmds') \in {1, 2}
           /\ cmds'[1].op = "stop"
           /\ cmds'[1].rc # 0 => (Len(cmds') = 1 /\ ~last'.ret)
           /\ cmds'[1].rc = 0 =>
                 /\ Len(cmds') = 2
                 /\ cmds'[2].op = "start"
                 /\ last'.ret <=> cmds'[2].rc = 0
           /\ mock'.exec = mock.exec + Len(cmds') ]_vars

\* C21 witness: a restart whose stop succeeded and whose start failed
\* returned failure after two commands.
C21_Witness ==
    /\ last.op = "restart"
    /\ ~last.ret
    /\ Len(cmds) = 2
    /\ cmds[1] = Cmd("stop", SitePath, 0)
    /\ cmds[2].op = "start"
    /\ cmds[2].rc # 0

\* C22: get_site_state returns the state text of a defined site when the
\* query succeeds, and None when the query fails and when the site is not
\* defined on the host.
C22_SiteStateOrNone ==
    last.op = "state" =>
        /\ (host.site # "absent" /\ ~last.hostExc /\ last.hostRc = 0) =>
              (last.ret /\ last.text = <<host.site>>)
        /\ (last.hostExc \/ last.hostRc # 0) => ~last.ret
        /\ host.site = "absent" => ~last.ret

\* C23: after a successful delete_site_content on an existing site
\* directory, with keep_root the directory still exists and holds no
\* entry, and without keep_root the directory no longer exists.
C23_DeleteLeavesEmptyRoot ==
    [][ (Calls("delete") /\ last'.ret /\ host.root) =>
           IF last'.keep_root THEN host'.root /\ host'.entries = {}
           ELSE ~host'.root ]_vars

\* C24: cleanup_temp_folder with no staging directory recorded returns
\* success and issues no command; with one recorded it issues the deletion
\* and clears temp_folder when the deletion succeeded, and returns
\* success = false with temp_folder kept when it failed.
C24_CleanupClearsOnlyOnSuccess ==
    [][ Calls("cleanup") =>
           /\ ~last'.raised
           /\ IF ~Truthy(bmTemp)
              THEN /\ last'.ret
                   /\ cmds' = <<>>
                   /\ mock' = mock
                   /\ bmTemp' = bmTemp
              ELSE /\ Len(cmds') = 1
                   /\ cmds'[1].op = "cleanup"
                   /\ cmds'[1].arg = bmTemp
                   /\ cmds'[1].rc = 0 => (last'.ret /\ bmTemp' = NonePath)
                   /\ cmds'[1].rc # 0 => (~last'.ret /\ bmTemp' = bmTemp) ]_vars

\* C24 witness: a cleanup whose deletion command failed returned
\* success = false and the staging directory is still recorded.
C24_Witness ==
    /\ last.op = "cleanup"
    /\ ~last.ret
    /\ cmds # <<>>
    /\ cmds[1].rc # 0
    /\ bmTemp = TempPath(now)

\* C25: create_temp_folder returns the Rollback_<timestamp> path and
\* records it in temp_folder when the creation command succeeds, and raises
\* RuntimeError with temp_folder unchanged when the command fails.
C25_CreateTempFolderContract ==
    [][ Calls("mktemp") =>
           /\ (~last'.hostExc /\ last'.hostRc = 0) =>
                 /\ ~last'.raised
                 /\ last'.path = TempPath(now)
                 /\ bmTemp' = TempPath(now)
                 /\ cmds' = <<Cmd("mktemp", TempPath(now), 0)>>
           /\ (last'.hostExc \/ last'.hostRc # 0) =>
                 /\ last'.raised
                 /\ last'.exc = "RuntimeError"
                 /\ bmTemp' = bmTemp ]_vars

\* C26: a with-block over an SSHExecutor is entered with the session
\* Connected and is left only through __exit__; after __exit__, whether the
\* block ended normally or by an exception, the session is Disconnected and
\* every transport that was opened has been closed once.
C26_ContextManagerDisconnects ==
    [][ /\ (block # "in" /\ block' = "in") => (ssh'.connected /\ ssh'.open)
        /\ block = "in" => block' \in {"in", "exited"}
        /\ (block = "in" /\ block' = "exited") =>
              /\ ~ssh'.connected
              /\ ~ssh'.open
              /\ mock'.close = mock'.opened
              /\ mock'.close >= 1 ]_vars

\* C26 witness: a block that sent a command and ended by an exception was
\* left with the session Disconnected and one close for one open.
C26_Witness ==
    /\ block = "exited"
    /\ last.op = "exit"
    /\ last.raised
    /\ last.pre
    /\ ~ssh.connected
    /\ mock.exec >= 1
    /\ mock.opened = 1
    /\ mock.close = 1

\* Position of a step of execute_rollback in the fixed sequence.
PcRank(l) ==
    CASE l = "idle" -> 0
      [] l = "connect" -> 1
      [] l = "connecting" -> 2
      [] l = "classify" -> 3
      [] l = "stage" -> 4
      [] l = "preventive" -> 5
      [] l = "stop" -> 6
      [] l = "delete" -> 7
      [] l = "copy" -> 8
      [] l = "start" -> 9
      [] l = "finalize" -> 10
      [] l = "finally" -> 11
      [] l = "done" -> 12

\* Position of a remote command in the fixed sequence.
CmdRank(op) ==
    CASE op = "count" -> 1
      [] op \in {"zipinfo", "folderinfo"} -> 2
      [] op = "mktemp" -> 3
      [] op = "extract" -> 4
      [] op = "preventive" -> 5
      [] op = "stop" -> 6
      [] op = "delete" -> 7
      [] op = "copy" -> 8
      [] op = "start" -> 9
      [] op = "cleanup" -> 10

\* C27: a run moves through connect, classify, stage, preventive backup,
\* stop, delete, copy, start, cleanup and disconnect in that order and
\* never back; the commands it issues follow the same order, each at most
\* once, none before the connection is made and none after the return
\* statement.
C27_FixedStepOrder ==
    [][ /\ \/ PcRank(pc') >= PcRank(pc)
           \/ pc = "done" /\ pc' = "connect"
        /\ \A k \in 1..(Len(cmds') - 1) : CmdRank(cmds'[k].op) < CmdRank(cmds'[k + 1].op)
        /\ cmds' # <<>> => (PcRank(pc') > PcRank("connecting") /\ lastAttempt' = "ok")
        /\ Len(cmds') > Len(cmds) => (ssh.connected /\ PcRank(pc) < PcRank("finally"))
        /\ (pc = "finally" /\ pc' = "done") => ~ssh'.connected ]_vars

\* C27 witness: a folder run that issued all seven of its commands and
\* returned.
C27_Witness ==
    /\ Returned
    /\ Len(cmds) = 7
    /\ cmds[1].op = "count"
    /\ cmds[3].op = "preventive"
    /\ cmds[7].op = "start"
    /\ ~ssh.connected

\* C28: a failed stop, delete or start skips nothing: once the run is past
\* the step after a failed stop the delete was issued, after a failed
\* delete the copy, and after a failed start the run finalizes and returns
\* from the end of the sequence.
C28_NonFatalStepsContinue ==
    /\ StepFailed("stop") => (pc = "delete" \/ Issued("delete"))
    /\ StepFailed("delete") => (pc = "copy" \/ Issued("copy"))
    /\ StepFailed("start") =>
          (pc = "finalize" \/ (pc \in {"finally", "done"} /\ exit \in {"with_errors"}))
    /\ (StepFailed("start") /\ Truthy(temp_folder) /\ pc \in {"finally", "done"}) =>
          Issued("cleanup")

\* C28 witness: stop, delete and start all failed and the run returned
\* from the end of the sequence with all of them issued.
C28_Witness ==
    /\ Returned
    /\ StepFailed("stop")
    /\ StepFailed("delete")
    /\ StepFailed("start")
    /\ Issued("copy")
    /\ exit = "with_errors"

\* C30: whenever the classifier returns single-archive, the descriptor's
\* name is the name the listing read from the backup directory, i.e. that
\* of the archive present there, and not a name made up by the program.
C30_DescriptorNamesTheArchive ==
    detection.type = "zip" => detection.info = "listed"

\* Results built after step 4 was attempted: the copy-failure abort and the
\* two completions.
AfterPreventive == Returned /\ exit \in {"copy_fail", "clean", "with_errors"}

\* C32: in every result produced after step 4 was attempted (copy-failure
\* abort, completion, completion with errors) the preventive_backup_path
\* field holds a path exactly when the preventive-backup command succeeded,
\* and that path is the one the command created; after a failed preventive
\* backup the field holds no path (it is None).
C32_PreventivePathShowsOutcome ==
    AfterPreventive =>
        LET p == result.preventive_backup_path IN
        /\ Truthy(p) <=> IssuedWith("preventive", {0})
        /\ Truthy(p) => \E k \in 1..Len(cmds) :
                            /\ cmds[k].op = "preventive"
                            /\ cmds[k].arg = p
                            /\ p.kind = "prerollback"
        /\ ~Truthy(p) => p = NonePath

\* A run whose preventive backup failed and whose copy then failed: the
\* abort result carries no preventive-backup path.
C32_Witness ==
    /\ Returned
    /\ exit = "copy_fail"
    /\ IssuedWith("preventive", FailCodes)
    /\ ~Truthy(result.preventive_backup_path)

\* A call of execute_rollback is in progress.
Running == pc \notin {"idle", "done"}

\* The ways a call ends: the fatal aborts and the two completions.
ExitLabels == {"connect_fail", "classify_abort", "extract_fail", "copy_fail",
               "exception", "clean", "with_errors"}

\* C33: every call of execute_rollback terminates: once started, and given
\* that each remote command returns, the call eventually has gone through
\* the disconnect step and returned a result object that is a completion
\* or a fatal abort; connection attempts are made at most MaxAttempts times.
C33_RunTerminates ==
    /\ Running ~> (Returned /\ exit \in ExitLabels /\ result # NoResult
                            /\ ~ssh.connected)
    /\ [](attempts <= MaxAttempts)

\* A call that used up its connection attempts and returned.
C33_Witness ==
    /\ Returned
    /\ exit = "connect_fail"
    /\ attempts = MaxAttempts
    /\ lastAttempt # "ok"
    /\ result = ConnectFailed

\* The text is no count of at least one archive: after stripping blank
\* space it is not an integer literal, or it is one that is zero or negative.
NoArchiveCounted(text) ==
    LET p == ParseInt(Strip(text)) IN ~p.ok \/ p.val <= 0

\* C34: when the archive-count command succeeds but its output is not a
\* parseable integer (empty or garbage), or parses to a value <= 0,
\* detect_backup_type returns the folder classification with zip_count 0
\* and the directory's descriptor, never the abort outcome, and issues
\* the folder listing command after the count.
C34_UnreadableCountIsFolder ==
    [][(Calls("detect") /\ last'.rc = 0 /\ NoArchiveCounted(last'.stdout)) =>
          /\ last'.detection.type = "folder"
          /\ last'.detection.zip_count = 0
          /\ last'.detection.info # "None"
          /\ last'.ret
          /\ Len(cmds') = 2
          /\ cmds'[2].op = "folderinfo"]_vars

\* detect_backup_type returned the folder classification for a count
\* command that printed text that is no number (execute_command has
\* stripped the line end).
C34_Witness ==
    /\ last.op = "detect"
    /\ last.rc = 0
    /\ last.stdout = <<"x">>
    /\ last.detection.type = "folder"
    /\ last.detection.zip_count = 0

\* C35: if creating the staging directory raises in a single-archive run,
\* the run returns success = false with the exception's text as error,
\* before any extraction, preventive-backup, stop, delete, copy or start
\* command is issued, and the result carries an empty mode and an empty
\* temp_folder.
C35_StagingDirFailureAborts ==
    (Returned /\ AbortedAtStagingDir) =>
        /\ ~result.success
        /\ result.error # <<>>
        /\ \A op \in {"extract", "preventive", "stop", "delete", "copy", "start"} :
              ~Issued(op)
        /\ result.mode = ""
        /\ result.temp_folder = EmptyPath

\* A run that was classified single-archive (the local mode is set) and
\* returned from the except handler with the text of create_temp_folder's
\* exception.
C35_Witness ==
    /\ Returned
    /\ AbortedAtStagingDir
    /\ mode = "zip"
    /\ result.mode = ""
    /\ result.error = <<"name 'basePath' is not defined">>

\* The text f"Completed with errors: {...}" starts with.
CompletedMarker == "Completed with errors: "

\* How a call ended, by the return statement that built its result.
Failed == exit \in {"connect_fail", "classify_abort", "extract_fail", "copy_fail", "exception"}
CompletedWithWarnings == exit = "with_errors"
CompletedClean == exit = "clean"

\* C36: every returned result with success = false has a non-empty error;
\* every returned result with success = true and a non-empty error has an
\* error that starts with the completed-with-errors marker; and (success,
\* error) tells the three endings apart: success = false is a failed run,
\* success = true with an error a completion with warnings, success = true
\* with an empty error a clean completion.
C36_ResultTellsEndingsApart ==
    Returned =>
        /\ ~result.success => result.error # <<>>
        /\ (result.success /\ result.error # <<>>) => Head(result.error) = CompletedMarker
        /\ Failed <=> ~result.success
        /\ CompletedWithWarnings <=> (result.success /\ result.error # <<>>)
        /\ CompletedClean <=> (result.success /\ result.error = <<>>)
        /\ ~result.success => Head(result.error) # CompletedMarker

\* A run that completed although stopping and starting the site failed:
\* success = true with an error that starts with the marker.
C36_Witness ==
    /\ Returned
    /\ result.success
    /\ StepFailed("stop")
    /\ StepFailed("start")
    /\ Len(result.error) > 1
    /\ Head(result.error) = CompletedMarker

\* The calls that run execute_command: the method itself and copy_files.
ExecOps == {"exec", "copy"}

\* The calls that run connect() or disconnect(): the methods themselves
\* and __exit__ (__enter__ is recorded as the connect() it makes).
SessionOps == {"connect", "disconnect", "exit"}

\* C38: execute_command never changes the session state: the connected
\* flag and the transport handle are the same after the call as before,
\* whether it raised, returned the host's exit code or ended in an
\* execution error (return code -1); the connected flag changes only in
\* steps of connect() and disconnect().
C38_ExecuteLeavesSessionAlone ==
    [][ /\ (\E op \in ExecOps : Completes(op)) => ssh' = ssh
        /\ ssh'.connected # ssh.connected => last'.op \in SessionOps ]_vars

\* A command whose execution failed (return code -1) on a session that is
\* still marked connected and still holds its client.
C38_Witness ==
    /\ last.op = "exec"
    /\ last.pre
    /\ last.hostExc
    /\ last.rc = -1
    /\ ssh.connected
    /\ ssh.client

\* C39: analyze_errors computes overall_health from the per-error scores
\* (high or critical = 2, medium = 1, other = 0): an empty list gives
\* healthy, any score of 2 gives critical, every other list gives warning;
\* degraded is never the outcome, and requires_attention is true exactly
\* when overall_health is critical.
C39_HealthFromSeverities ==
    last.op = "analyze" =>
        LET n == Len(last.errors)
            score(k) == IF last.errors[k].severity \in {"high", "critical"} THEN 2
                        ELSE IF last.errors[k].severity = "medium" THEN 1
                        ELSE 0
        IN /\ n = Len(errors)
           /\ \A k \in 1..n : last.errors[k].message = errors[k]
           /\ n = 0 => last.overall_health = "healthy"
           /\ (\E k \in 1..n : score(k) = 2) => last.overall_health = "critical"
           /\ (n > 0 /\ \A k \in 1..n : score(k) < 2) => last.overall_health = "warning"
           /\ last.overall_health # "degraded"
           /\ last.requires_attention <=> last.overall_health = "critical"

\* A report on two medium errors, one matching a pattern and one unknown:
\* the scores sum to the number of errors and the outcome is warning.
C39_Witness ==
    /\ last.op = "analyze"
    /\ Len(last.errors) = 2
    /\ last.errors[1].category = "iis_operation"
    /\ last.errors[2].category = "unknown"
    /\ \A k \in 1..2 : last.errors[k].severity = "medium"
    /\ last.overall_health = "warning"
    /\ ~last.requires_attention

====
